---- MODULE Spec2Model ----
(***************************************************************************)
(* Model of calculator.py (Earnings Volatility Calculator): the proxy pool *)
(* and session manager, the retrying fetchers, the pickled result cache    *)
(* and the earnings scanner.                                               *)
(***************************************************************************)
EXTENDS Integers, Sequences, FiniteSets, TLC

(***************************************************************************)
(* Bounds of the model.                                                    *)
(***************************************************************************)
MaxEndpoints == 2
MaxFetched == 3
MaxTickers == 2
MaxRows == 2
MaxDay == 7
batch_size == 2

(***************************************************************************)
(* ProxyManager and SessionManager state.  An endpoint is a number in      *)
(* 1..MaxEndpoints; Python's None is NoProxy.                              *)
(***************************************************************************)
VARIABLES proxies, current_proxy, proxy_enabled, session, lastCall, installed

proxyVars == <<proxies, current_proxy, proxy_enabled, session, lastCall,
               installed>>

NoProxy == 0
Endpoints == 1..MaxEndpoints
Managers == {"analyzer", "calendar"}

SeqToSet(s) == {s[i] : i \in 1..Len(s)}

BoundedSeq(S, n) == UNION {[1..k -> S] : k \in 0..n}

\* lastCall records the last ProxyManager / SessionManager call: its return
\* value, and current_proxy and the manager's session proxy before the call.
\* installed is the set of endpoints the providers that answered returned
\* in the most recent fetch_proxies.
NoCall == [op |-> "none", mgr |-> "none", ret |-> NoProxy,
           pre_current |-> NoProxy, pre_session |-> NoProxy]

\* ProxyManager.__init__ and SessionManager.__init__: empty pool, proxying
\* disabled, each manager's session built by _create_session without a proxy.
InitProxy ==
    /\ proxies = <<>>
    /\ current_proxy = NoProxy
    /\ proxy_enabled = FALSE
    /\ session = [m \in Managers |-> NoProxy]
    /\ lastCall = NoCall
    /\ installed = {}

\* A pool that keeps every fetched entry.
keep_all(all) == all

\* fetch_proxies, lines 176-183: keep the first occurrence of each endpoint.
RECURSIVE unique(_)
unique(all) ==
    IF all = <<>> THEN <<>>
    ELSE LET front == unique(SubSeq(all, 1, Len(all) - 1))
             p == all[Len(all)]
         IN IF p \in SeqToSet(front) THEN front ELSE Append(front, p)

\* A draw from the whole pool, the current endpoint included.
av_all(ps, cur) == ps

\* rotate_proxy, line 195: the pool members other than the current one.
av(ps, cur) == SelectSeq(ps, LAMBDA p : p # cur)

\* rotate_proxy: the return value and the new current_proxy for the random
\* choice pick (which the caller draws from av).
rotate_proxy(ps, cur, en, pick) ==
    IF ~en \/ Len(ps) <= 1 THEN [ret |-> NoProxy, current |-> cur]
    ELSE IF av(ps, cur) # <<>> THEN [ret |-> pick, current |-> pick]
    ELSE [ret |-> NoProxy, current |-> cur]

\* The values random.choice(av) can produce in rotate_proxy.
RotateChoices(ps, cur, en) ==
    IF ~en \/ Len(ps) <= 1 \/ av(ps, cur) = <<>> THEN {NoProxy}
    ELSE SeqToSet(av(ps, cur))

\* A draw that is not recorded as current.
get_proxy_unrecorded(ps, cur, en, pick) ==
    IF ~en \/ ps = <<>> THEN [ret |-> NoProxy, current |-> cur]
    ELSE [ret |-> pick, current |-> cur]

\* get_proxy: the return value and the new current_proxy for the choice pick.
get_proxy(ps, cur, en, pick) ==
    IF ~en \/ ps = <<>> THEN [ret |-> NoProxy, current |-> cur]
    ELSE [ret |-> pick, current |-> pick]

\* The values random.choice(self.proxies) can produce in get_proxy.
GetChoices(ps, en) ==
    IF ~en \/ ps = <<>> THEN {NoProxy} ELSE SeqToSet(ps)

\* _create_session: the proxy the fresh requests.Session is bound to, and the
\* pool's new current_proxy.
create_session(ps, cur, en, pick) ==
    IF en THEN LET g == get_proxy(ps, cur, en, pick)
               IN [proxy |-> g.ret, current |-> g.current]
    ELSE [proxy |-> NoProxy, current |-> cur]

Call(op, m, ret) ==
    [op |-> op, mgr |-> m, ret |-> ret,
     pre_current |-> current_proxy,
     pre_session |-> IF m \in Managers THEN session[m] ELSE NoProxy]

\* EarningsTkApp.on_toggle_proxy
on_toggle_proxy ==
    /\ proxy_enabled' = ~proxy_enabled
    /\ lastCall' = Call("toggle", "none", NoProxy)
    /\ UNCHANGED <<proxies, current_proxy, session, installed>>

\* The provider functions fetch_proxies submits (two of the five).
Sources == {"fetch_proxyscrape", "fetch_geonode"}

\* What the future of a provider yields: a list of at most two endpoints,
\* or nothing when the provider failed (it raised, or caught its error and
\* returned []).
ProviderFailed == [ok |-> FALSE, list |-> <<>>]
ProviderAnswer ==
    {ProviderFailed} \cup {[ok |-> TRUE, list |-> l] : l \in BoundedSeq(Endpoints, 2)}

\* The answers of one fetch_proxies: at most MaxFetched endpoints in all.
ProviderAnswers ==
    {a \in [Sources -> ProviderAnswer] :
        \A s, t \in Sources : s # t => Len(a[s].list) + Len(a[t].list) <= MaxFetched}

\* The orders in which as_completed can yield the futures.
CompletionOrders ==
    {o \in [1..Cardinality(Sources) -> Sources] :
        \A i, j \in 1..Cardinality(Sources) : o[i] = o[j] => i = j}

\* fetch_proxies, lines 165-173: all_proxies after the loop over the
\* completed futures.
RECURSIVE all_proxies(_, _)
all_proxies(answers, order) ==
    IF order = <<>> THEN <<>>
    ELSE answers[order[1]].list \o all_proxies(answers, Tail(order))

\* ProxyManager.fetch_proxies: all is the concatenation of the providers'
\* results in completion order, failed the providers that failed.
fetch_proxies_from(all, failed) ==
    /\ proxies' = unique(all)
    /\ installed' = SeqToSet(all)
    /\ lastCall' = [op |-> "fetch_proxies", mgr |-> "none", ret |-> NoProxy,
                    pre_current |-> current_proxy, pre_session |-> NoProxy,
                    failed |-> failed]
    /\ UNCHANGED <<current_proxy, proxy_enabled, session>>

fetch_proxies ==
    \E answers \in ProviderAnswers : \E order \in CompletionOrders :
        fetch_proxies_from(all_proxies(answers, order),
                           {s \in Sources : ~answers[s].ok})

\* The providers' answer when the pool is refreshed before a fetch or an
\* analysis: two endpoints, one of them listed twice.
SetupPools == {<<1, 2, 1>>}

setup_proxies == \E all \in SetupPools : fetch_proxies_from(all, {})

\* ProxyManager.get_proxy called on its own.
GetProxy ==
    \E pick \in GetChoices(proxies, proxy_enabled) :
        LET g == get_proxy(proxies, current_proxy, proxy_enabled, pick)
        IN /\ current_proxy' = g.current
           /\ lastCall' = Call("get_proxy", "none", g.ret)
           /\ UNCHANGED <<proxies, proxy_enabled, session, installed>>

\* ProxyManager.rotate_proxy called on its own.
RotateProxy ==
    \E pick \in RotateChoices(proxies, current_proxy, proxy_enabled) :
        LET r == rotate_proxy(proxies, current_proxy, proxy_enabled, pick)
        IN /\ current_proxy' = r.current
           /\ lastCall' = Call("rotate_proxy", "none", r.ret)
           /\ UNCHANGED <<proxies, proxy_enabled, session, installed>>

\* lastCall of a rotate_session: rebuilt tells whether _create_session ran
\* and self.session was assigned a new requests.Session.
SessionCall(m, ret, rebuilt) ==
    [op |-> "rotate_session", mgr |-> m, ret |-> ret,
     pre_current |-> current_proxy, pre_session |-> session[m],
     rebuilt |-> rebuilt]

\* A rotate_session that builds a new session whatever rotate_proxy returned.
rotate_session_always_rebuilds(m) ==
    \E pick \in RotateChoices(proxies, current_proxy, proxy_enabled) :
      \E pick2 \in GetChoices(proxies, proxy_enabled) :
        LET r == rotate_proxy(proxies, current_proxy, proxy_enabled, pick)
            c == create_session(proxies, r.current, proxy_enabled, pick2)
        IN /\ session' = [session EXCEPT ![m] = c.proxy]
           /\ current_proxy' = c.current
           /\ lastCall' = SessionCall(m, r.ret, TRUE)
           /\ UNCHANGED <<proxies, proxy_enabled, installed>>

\* SessionManager.rotate_session of manager m: rotate_proxy, then, when it
\* returned an endpoint, _create_session, which draws again with get_proxy.
rotate_session(m) ==
    IF proxy_enabled
    THEN \E pick \in RotateChoices(proxies, current_proxy, proxy_enabled) :
           LET r == rotate_proxy(proxies, current_proxy, proxy_enabled, pick)
           IN IF r.ret # NoProxy
              THEN \E pick2 \in GetChoices(proxies, proxy_enabled) :
                     LET c == create_session(proxies, r.current, proxy_enabled, pick2)
                     IN /\ session' = [session EXCEPT ![m] = c.proxy]
                        /\ current_proxy' = c.current
                        /\ lastCall' = SessionCall(m, r.ret, TRUE)
                        /\ UNCHANGED <<proxies, proxy_enabled, installed>>
              ELSE /\ current_proxy' = r.current
                   /\ lastCall' = SessionCall(m, NoProxy, FALSE)
                   /\ UNCHANGED <<proxies, proxy_enabled, session, installed>>
    ELSE /\ lastCall' = SessionCall(m, NoProxy, FALSE)
         /\ UNCHANGED <<proxies, current_proxy, proxy_enabled, session,
                        installed>>

RotateSession == \E m \in Managers : rotate_session(m)

(***************************************************************************)
(* EarningsCalendarFetcher.  A calendar page is a sequence of table rows;  *)
(* a row carries a ticker and a tooltip, or is a row whose ticker cannot   *)
(* be parsed.                                                              *)
(***************************************************************************)
VARIABLES cal_pc, cal_attempt, cal_ret, cal_result, cal_requests,
          cal_rotations, cal_page, earnings_times

calVars == <<cal_pc, cal_attempt, cal_ret, cal_result, cal_requests,
             cal_rotations, cal_page, earnings_times>>

TickerNames == <<"AAA", "BBB", "CCC", "DDD">>
Tickers == {TickerNames[i] : i \in 1..MaxTickers}
Tooltips == {"Before market open", "After market close", ""}
BadRow == [ticker |-> "", tip |-> "unparsable"]
Rows == [ticker : Tickers, tip : Tooltips] \cup {BadRow}
Pages == BoundedSeq(Rows, MaxRows)

max_retries == 3

\* fetch_earnings_data, lines 527-536: the timing tag of a row.
timing(row) ==
    IF row.tip = "Before market open" THEN "Pre Market"
    ELSE IF row.tip = "After market close" THEN "Post Market"
    ELSE "During Market"

\* fetch_earnings_data, lines 519-542: the tickers appended to ret by the
\* rows of a page; a row that fails to parse is skipped.
RECURSIVE page_tickers(_)
page_tickers(page) ==
    IF page = <<>> THEN <<>>
    ELSE LET front == page_tickers(SubSeq(page, 1, Len(page) - 1))
             row == page[Len(page)]
         IN IF row = BadRow THEN front ELSE Append(front, row.ticker)

\* fetch_earnings_data, lines 517-538: earnings_times after the rows of a
\* page; a later row of the same ticker overwrites an earlier one.
page_times(page) ==
    LET good == {i \in 1..Len(page) : page[i] # BadRow}
        last(t) == CHOOSE i \in good : /\ page[i].ticker = t
                                       /\ \A j \in good : page[j].ticker = t => j <= i
    IN [t \in {page[i].ticker : i \in good} |-> timing(page[last(t)])]

\* get_earnings_time
get_earnings_time(ticker) ==
    IF ticker \in DOMAIN earnings_times THEN earnings_times[ticker] ELSE "Unknown"

\* A rotation after every failure, the last one included.
rotate_always(attempt) == TRUE

\* fetch_earnings_data, line 550: rotate after a failure that is not the last.
rotate_after_failure(attempt) == attempt < max_retries

InitCal ==
    /\ cal_pc = "idle"
    /\ cal_attempt = 0
    /\ cal_ret = <<>>
    /\ cal_result = <<>>
    /\ cal_requests = 0
    /\ cal_rotations = 0
    /\ cal_page = <<>>
    /\ earnings_times = <<>>

\* fetch_earnings_data, lines 490-492: entry.
FetchStart ==
    /\ cal_pc \in {"idle", "returned"}
    /\ cal_pc' = "attempt"
    /\ cal_attempt' = 0
    /\ cal_ret' = <<>>
    /\ cal_requests' = 0
    /\ cal_rotations' = 0
    /\ cal_result' = <<>>
    /\ cal_page' = <<>>
    /\ UNCHANGED earnings_times

\* fetch_earnings_data, lines 495-546: an attempt whose request and parse
\* succeed with the given page.
FetchSucceeds(page) ==
    /\ cal_pc = "attempt"
    /\ cal_attempt < max_retries
    /\ cal_requests' = cal_requests + 1
    /\ earnings_times' = page_times(page)
    /\ cal_ret' = cal_ret \o page_tickers(page)
    /\ cal_result' = cal_ret'
    /\ cal_page' = page
    /\ cal_pc' = "returned"
    /\ UNCHANGED <<cal_attempt, cal_rotations>>

\* fetch_earnings_data, lines 548-555: an attempt that raises before any row
\* is read (request, JSON or HTML parse).
FetchFails ==
    /\ cal_pc = "attempt"
    /\ cal_attempt < max_retries
    /\ cal_requests' = cal_requests + 1
    /\ cal_attempt' = cal_attempt + 1
    /\ IF rotate_after_failure(cal_attempt')
       THEN /\ rotate_session("calendar")
            /\ cal_rotations' = cal_rotations + 1
            /\ UNCHANGED <<cal_pc, cal_result>>
       ELSE /\ cal_pc' = "returned"
            /\ cal_result' = <<>>
            /\ UNCHANGED <<cal_rotations, proxyVars>>
    /\ cal_page' = <<>>
    /\ UNCHANGED <<cal_ret, earnings_times>>

(***************************************************************************)
(* OptionsAnalyzer.compute_recommendation.  Dates are days counted from    *)
(* today; the listing t.options is a set of expiry days.  Every network    *)
(* call of an attempt either answers or raises.                            *)
(***************************************************************************)
VARIABLES rec_pc, rec_symbol, rec_attempt, rec_exps, rec_oc, rec_price_attempt,
          rec_price_requests,
          rec_result, rec_rotations, rec_failures, rec_absence, rec_filter

recVars == <<rec_pc, rec_symbol, rec_attempt, rec_exps, rec_oc,
             rec_price_attempt, rec_price_requests, rec_result, rec_rotations,
             rec_failures, rec_absence, rec_filter>>

today == 0
cutoff_days == 45
ExpiryDays == {0, 10, 45, 60}
Listings == SUBSET ExpiryDays

NoResult == [kind |-> "none"]
FullResult == [kind |-> "full"]
ErrorResult(msg) == [kind |-> "error", error |-> msg]
NoDate == <<-1>>

\* rec_filter records the last call of filter_dates in the current
\* compute_recommendation: the dates it was given and what it returned.
NoFilterCall == [dates |-> {}, ret |-> <<>>]

\* sorted(...) of a set of days, ascending.
RECURSIVE sorted(_)
sorted(S) ==
    IF S = {} THEN <<>>
    ELSE LET m == CHOOSE x \in S : \A y \in S : x <= y
         IN <<m>> \o sorted(S \ {m})

\* A filter that keeps an expiry of today.
filter_dates_keeping_today(dates) ==
    LET sdates == sorted(dates)
        cutoff == today + cutoff_days
        hits == {i \in 1..Len(sdates) : sdates[i] >= cutoff}
    IN IF hits = {} THEN NoDate
       ELSE SubSeq(sdates, 1, CHOOSE k \in hits : \A j \in hits : k <= j)

\* filter_dates: every expiry up to and including the first one at or past
\* the cutoff, without a leading expiry equal to today; NoDate stands for
\* raise ValueError("No date 45+ days out found.").
filter_dates(dates) ==
    LET sdates == sorted(dates)
        cutoff == today + cutoff_days
        hits == {i \in 1..Len(sdates) : sdates[i] >= cutoff}
    IN IF hits = {} THEN NoDate
       ELSE LET i == CHOOSE k \in hits : \A j \in hits : k <= j
                arr == SubSeq(sdates, 1, i)
            IN IF arr[1] = today THEN Tail(arr) ELSE arr

\* An except branch that re-raises on the last attempt, as get_current_price
\* does.
final_failure_raises(attempt, msg) ==
    IF attempt < 2 THEN [pc |-> "options", result |-> NoResult]
    ELSE [pc |-> "raised", result |-> NoResult]

\* compute_recommendation, lines 460-466: the except branch on the attempt
\* numbered attempt (0, 1, 2): retry, or return the error marker.
except_branch(attempt, msg) ==
    IF attempt < 2 THEN [pc |-> "options", result |-> NoResult]
    ELSE [pc |-> "returned", result |-> ErrorResult("Err: " \o msg)]

InitRec ==
    /\ rec_pc = "idle"
    /\ rec_symbol = ""
    /\ rec_attempt = 0
    /\ rec_exps = <<>>
    /\ rec_oc = <<>>
    /\ rec_price_attempt = 0
    /\ rec_price_requests = 0
    /\ rec_result = NoResult
    /\ rec_rotations = 0
    /\ rec_failures = 0
    /\ rec_absence = "none"
    /\ rec_filter = NoFilterCall

\* compute_recommendation: entry with the given symbol.
RecStart(symbol) ==
    /\ rec_pc \in {"idle", "returned"}
    /\ rec_pc' = "options"
    /\ rec_symbol' = symbol
    /\ rec_attempt' = 0
    /\ rec_exps' = <<>>
    /\ rec_oc' = <<>>
    /\ rec_price_attempt' = 0
    /\ rec_price_requests' = 0
    /\ rec_result' = NoResult
    /\ rec_rotations' = 0
    /\ rec_failures' = 0
    /\ rec_absence' = "none"
    /\ rec_filter' = NoFilterCall
    /\ UNCHANGED proxyVars

\* An exception reaches the except clause of the current attempt.
Raise(msg) ==
    LET x == except_branch(rec_attempt, msg)
    IN /\ rec_failures' = rec_failures + 1
       /\ rec_pc' = x.pc
       /\ rec_result' = x.result
       /\ IF rec_attempt < 2
          THEN /\ rotate_session("analyzer")
               /\ rec_rotations' = rec_rotations + 1
               /\ rec_attempt' = rec_attempt + 1
          ELSE UNCHANGED <<proxyVars, rec_rotations, rec_attempt>>

\* A value is returned from inside the try block.
Return(result) ==
    /\ rec_pc' = "returned"
    /\ rec_result' = result
    /\ UNCHANGED <<proxyVars, rec_rotations, rec_attempt, rec_failures>>

\* Lines 358-365: the symbol test, t.options and filter_dates.
RecOptions ==
    /\ rec_pc = "options"
    /\ UNCHANGED <<rec_symbol, rec_price_attempt, rec_price_requests>>
    /\ IF rec_symbol = ""
       THEN /\ Return(ErrorResult("No symbol provided."))
            /\ rec_absence' = "no_symbol"
            /\ UNCHANGED <<rec_exps, rec_oc, rec_filter>>
       ELSE \/ /\ Raise("options request failed")
               /\ UNCHANGED <<rec_exps, rec_oc, rec_absence, rec_filter>>
            \/ \E listing \in Listings :
                 IF listing = {}
                 THEN /\ Return(ErrorResult("No options for symbol."))
                      /\ rec_absence' = "no_options"
                      /\ UNCHANGED <<rec_exps, rec_oc, rec_filter>>
                 ELSE IF filter_dates(listing) = NoDate
                 THEN /\ Raise("No date 45+ days out found.")
                      /\ rec_absence' = "no_valid_expiration"
                      /\ rec_filter' = [dates |-> listing, ret |-> NoDate]
                      /\ UNCHANGED <<rec_exps, rec_oc>>
                 ELSE /\ rec_exps' = filter_dates(listing)
                      /\ rec_filter' = [dates |-> listing,
                                        ret |-> filter_dates(listing)]
                      /\ rec_oc' = <<>>
                      /\ rec_pc' = "chains"
                      /\ UNCHANGED <<proxyVars, rec_attempt, rec_result,
                                     rec_rotations, rec_failures, rec_absence>>

\* Lines 367-369: t.option_chain(e) answers; usable tells whether both the
\* calls and the puts of the chain are non-empty.
RecChain ==
    /\ rec_pc \in {"chains", "chain_retry"}
    /\ Len(rec_oc) < Len(rec_exps)
    /\ \E usable \in BOOLEAN : rec_oc' = Append(rec_oc, usable)
    /\ rec_pc' = "chains"
    /\ UNCHANGED <<proxyVars, rec_symbol, rec_attempt, rec_exps,
                   rec_price_attempt, rec_price_requests, rec_result, rec_rotations, rec_failures,
                   rec_absence>>
    /\ UNCHANGED rec_filter

\* Lines 370-373: the first t.option_chain(e) raises: rotate and ask again.
RecChainFails ==
    /\ rec_pc = "chains"
    /\ Len(rec_oc) < Len(rec_exps)
    /\ rotate_session("analyzer")
    /\ rec_rotations' = rec_rotations + 1
    /\ rec_pc' = "chain_retry"
    /\ UNCHANGED <<rec_symbol, rec_attempt, rec_exps, rec_oc,
                   rec_price_attempt, rec_price_requests, rec_result, rec_failures, rec_absence>>
    /\ UNCHANGED rec_filter

\* Line 374: the second t.option_chain(e) raises too.
RecChainRetryFails ==
    /\ rec_pc = "chain_retry"
    /\ Raise("option chain request failed")
    /\ UNCHANGED <<rec_symbol, rec_exps, rec_oc, rec_price_attempt, rec_price_requests, rec_absence>>
    /\ UNCHANGED rec_filter

\* get_current_price, lines 336-347, one pass of its loop.
RecPrice ==
    /\ rec_pc = "chains"
    /\ Len(rec_oc) = Len(rec_exps)
    /\ UNCHANGED <<rec_symbol, rec_exps, rec_oc, rec_absence>>
    /\ UNCHANGED rec_filter
    /\ rec_price_requests' = rec_price_requests + 1
    /\ \/ /\ rec_pc' = "history"
          /\ rec_price_attempt' = 0
          /\ UNCHANGED <<proxyVars, rec_attempt, rec_result, rec_rotations,
                         rec_failures>>
       \/ IF rec_price_attempt < 2
          THEN /\ rotate_session("analyzer")
               /\ rec_rotations' = rec_rotations + 1
               /\ rec_price_attempt' = rec_price_attempt + 1
               /\ UNCHANGED <<rec_pc, rec_attempt, rec_result, rec_failures>>
          ELSE /\ Raise("Cannot get price")
               /\ rec_price_attempt' = 0

\* Lines 377-403: the 1-day history and the at-the-money volatilities.
RecHistory1d ==
    /\ rec_pc = "history"
    /\ UNCHANGED <<rec_symbol, rec_exps, rec_oc, rec_price_attempt, rec_price_requests>>
    /\ UNCHANGED rec_filter
    /\ \/ /\ Raise("history request failed")
          /\ UNCHANGED rec_absence
       \/ IF \A i \in 1..Len(rec_oc) : ~rec_oc[i]
          THEN /\ Return(ErrorResult("No ATM IV found."))
               /\ rec_absence' = "no_atm_iv"
          ELSE /\ rec_pc' = "metrics"
               /\ UNCHANGED <<proxyVars, rec_attempt, rec_result, rec_rotations,
                              rec_failures, rec_absence>>

\* Lines 405-458: term structure, the 3-month history, t.info and the result.
RecMetrics ==
    /\ rec_pc = "metrics"
    /\ UNCHANGED <<rec_symbol, rec_exps, rec_oc, rec_price_attempt, rec_price_requests, rec_absence>>
    /\ UNCHANGED rec_filter
    /\ \/ Raise("history or info request failed")
       \/ Return(FullResult)

RecStep ==
    \/ RecOptions
    \/ RecChain
    \/ RecChainFails
    \/ RecChainRetryFails
    \/ RecPrice
    \/ RecHistory1d
    \/ RecMetrics

(***************************************************************************)
(* Values of a result dict.  Python values are tagged: numbers, strings,   *)
(* booleans and None.  Ratios are scaled by 100 (1.25 is 125) and slopes   *)
(* by 100000 (-0.00406 is -406).                                           *)
(***************************************************************************)
Num(n) == [n |-> n, tag |-> "num"]
Str(x) == [s |-> x, tag |-> "str"]
Bool(b) == [tag |-> "bool", b |-> b]
None == [tag |-> "none"]

\* Python's v == 0: true of the number 0 and of False.
py_eq_zero(v) == (v.tag = "num" /\ v.n = 0) \/ (v.tag = "bool" /\ v.b = FALSE)

\* A merge that treats every stored value as missing.
always_missing(v) == TRUE

\* update_missing_data, line 657: entry[k]=='N/A' or entry[k] is None or
\* entry[k]==0.
is_missing_value(v) == v = Str("N/A") \/ v = None \/ py_eq_zero(v)

(***************************************************************************)
(* EnhancedEarningsScanner.analyze_stock as a function of what its network *)
(* calls answer.                                                           *)
(***************************************************************************)
\* A 3-month price history, summarised by its last close, its last volume
\* and the volatility yang_zhang_volatility derives from it.
History(close, volume, hv) == [close |-> close, volume |-> volume, hv |-> hv]
NoHistory == [close |-> -1, volume |-> -1, hv |-> -1]
Histories == {History(10, 2000, 25)}

\* compute_recommendation's full result dict, lines 445-458.
Od(avgv, ratio, slope, iv30, exmo, fi_iv) ==
    [error |-> FALSE,
     avg_volume |-> Bool(avgv >= 1500000),
     avg_volume_value |-> Num(avgv),
     iv30_rv30 |-> Num(ratio),
     term_slope |-> Num(slope),
     term_structure |-> Num(iv30),
     expected_move |-> Str(exmo),
     current_iv |-> Num(fi_iv),
     atr14 |-> Num(2)]

\* compute_recommendation's {"error": ...}.
OdError == [error |-> TRUE]

\* The results compute_recommendation is given in the model: an error, a
\* complete Recommended one, a Consider one without a straddle price, and
\* one whose 30-day volatility is 0.
OdResults ==
    {OdError,
     Od(2000000, 130, -500, 30, "5.0%", 32),
     Od(1000000, 130, -500, 30, "N/A", 32),
     Od(2000000, 0, 0, 0, "5.0%", 32)}

\* compute_recommendation's result for a chain without quotes whose
\* impliedVolatility column is 0.0 throughout: lines 387-394 give
\* fi_iv = 0.0, the spline gives iv30 = 0 and lines 440-443 give "N/A".
QuotelessOd == Od(1000000, 0, 0, 0, "N/A", 0)

\* The answers of compute_recommendation during a scan.
ScanOdResults == {OdError, Od(2000000, 130, -500, 30, "5.0%", 32)}

\* A rule that answers Consider whenever the slope passes.
score_consider_on_slope(avb, ivcheck, slopecheck) ==
    IF avb /\ ivcheck /\ slopecheck THEN "Recommended"
    ELSE IF slopecheck THEN "Consider"
    ELSE "Avoid"

\* analyze_stock, lines 821-829: the scoring rule.
score(avb, ivcheck, slopecheck) ==
    IF avb /\ ivcheck /\ slopecheck THEN "Recommended"
    ELSE IF slopecheck /\ ((avb /\ ~ivcheck) \/ (ivcheck /\ ~avb)) THEN "Consider"
    ELSE "Avoid"

\* An analyze_stock that takes nothing from the price history.
history_values_default(hist) == [cp |-> 0, tv |-> 0, hv |-> 1]

\* analyze_stock, lines 805-816: the last close, the last volume and the
\* historical volatility of the price history, or 0, 0 and 1 without one.
history_values(hist) ==
    IF hist = NoHistory THEN [cp |-> 0, tv |-> 0, hv |-> 1]
    ELSE [cp |-> hist.close, tv |-> hist.volume, hv |-> hist.hv]

\* analyze_stock, lines 805-864, when no call raises: hist is the batch
\* history or, without one, what st.history answered (NoHistory if empty);
\* od is compute_recommendation's result; etime is get_earnings_time(ticker).
analyze_record(ticker, hist, od, mcap, etime) ==
    LET cp == history_values(hist).cp
        tv == history_values(hist).tv
        hv == history_values(hist).hv
    IN IF ~od.error
       THEN [ticker |-> Str(ticker),
             current_price |-> Num(cp),
             market_cap |-> Num(mcap),
             volume |-> Num(tv),
             avg_volume |-> od.avg_volume,
             avg_volume_value |-> od.avg_volume_value,
             earnings_time |-> Str(etime),
             recommendation |-> Str(score(od.avg_volume.b,
                                          od.iv30_rv30.n >= 125,
                                          od.term_slope.n <= -406)),
             expected_move |-> od.expected_move,
             atr14 |-> od.atr14,
             iv30_rv30 |-> od.iv30_rv30,
             term_slope |-> od.term_slope,
             term_structure |-> od.term_structure,
             historical_volatility |-> Num(hv),
             current_iv |-> od.current_iv]
       ELSE [ticker |-> Str(ticker),
             current_price |-> Num(cp),
             market_cap |-> Num(0),
             volume |-> Num(tv),
             avg_volume |-> Bool(FALSE),
             avg_volume_value |-> Num(0),
             earnings_time |-> Str("Unknown"),
             recommendation |-> Str("Avoid"),
             expected_move |-> Str("N/A"),
             atr14 |-> Num(0),
             iv30_rv30 |-> Num(0),
             term_slope |-> Num(0),
             term_structure |-> Num(0),
             historical_volatility |-> Num(hv),
             current_iv |-> None]

\* an_hist is the price history the last analyze_stock had, an_od
\* compute_recommendation's answer in it and an_result what it returned.
VARIABLES an_hist, an_od, an_result

analyzeVars == <<an_hist, an_od, an_result>>

\* compute_recommendation was not reached.
OdNotCalled == [error |-> FALSE, called |-> FALSE]

InitAnalyze ==
    /\ an_hist = NoHistory
    /\ an_od = OdNotCalled
    /\ an_result = None

\* The price histories of a single analysis.
AnalyzeHistories == Histories \cup {History(55, 900, 40)}

\* The answers of compute_recommendation to a single analysis: an error, or
\* a result with an average volume on either side of 1,500,000, a ratio
\* around 1.25 and a slope around -0.00406.
AnalyzeOds ==
    {OdError} \cup
    {Od(v, r, sl, 30, "5.0%", 32) :
        v \in {1000000, 2000000},
        r \in {50, 124, 125, 130},
        sl \in {-500, -406, -405, -200, 1000}}

\* EnhancedEarningsScanner.analyze_stock: hist is what the history request
\* answered, od what compute_recommendation returned.
analyze_stock(ticker, hist, od) ==
    /\ an_hist' = hist
    /\ an_od' = od
    /\ an_result' = analyze_record(ticker, hist, od, 1000, get_earnings_time(ticker))

\* analyze_stock, lines 865-867: a call raised; the error is logged and None
\* is returned.  The calls that can raise are st.history (line 812), made
\* when no batch history was given, and st2.info (line 833), read when
\* compute_recommendation returned a result without error.
analyze_stock_raises(hist, od) ==
    /\ an_result' = None
    /\ \/ /\ an_hist' = NoHistory
          /\ an_od' = OdNotCalled
       \/ /\ ~od.error
          /\ an_hist' = hist
          /\ an_od' = od

(***************************************************************************)
(* DataCache.  A cache file is named by its key; days are counted from the *)
(* start of the behaviour.                                                 *)
(***************************************************************************)
\* cache_last is the last DataCache call and cache_ret the pair it returned
\* if it was get_data; unreadable holds the keys of the files pickle.load
\* cannot decode.
VARIABLES cache, now, cache_ret, cache_last, unreadable

cacheVars == <<cache, now, cache_ret, cache_last, unreadable>>

cache_expiry_days == 7

TickerRank(t) == CHOOSE i \in 1..Len(TickerNames) : TickerNames[i] = t

\* sorted(tks) of a list of tickers.
RECURSIVE sorted_tickers(_)
sorted_tickers(tks) ==
    IF tks = <<>> THEN <<>>
    ELSE LET i == CHOOSE k \in 1..Len(tks) :
                    \A j \in 1..Len(tks) : TickerRank(tks[k]) <= TickerRank(tks[j])
             others == [j \in 1..(Len(tks) - 1) |-> IF j < i THEN tks[j] ELSE tks[j + 1]]
         IN <<tks[i]>> \o sorted_tickers(others)

\* _get_cache_key: the digest of the date joined with the sorted tickers.
get_cache_key(date, tks) == <<date, sorted_tickers(tks)>>

\* _identify_missing_data: the three sentinel tests of one result.
missing_fields(d) ==
    (IF d.expected_move = Str("N/A") THEN <<"expected_move">> ELSE <<>>)
    \o (IF d.current_iv = None THEN <<"current_iv">> ELSE <<>>)
    \o (IF d.term_structure = Num(0) \/ d.term_structure = Str("N/A")
        THEN <<"term_structure">> ELSE <<>>)

\* _identify_missing_data
RECURSIVE identify_missing_data(_)
identify_missing_data(data) ==
    IF data = <<>> THEN <<>>
    ELSE LET front == identify_missing_data(SubSeq(data, 1, Len(data) - 1))
             d == data[Len(data)]
         IN IF missing_fields(d) # <<>>
            THEN Append(front, [ticker |-> d.ticker.s,
                                missing_fields |-> missing_fields(d),
                                earnings_time |-> d.earnings_time.s])
            ELSE front

\* A store that keeps only the records without a missing field.
saved_file_without_flagged(date, tickers, data) ==
    [timestamp |-> now, date |-> date, tickers |-> tickers,
     data |-> SelectSeq(data, LAMBDA d : missing_fields(d) = <<>>),
     missing_data |-> <<>>]

\* save_data: the pickled dict.
saved_file(date, tickers, data) ==
    [timestamp |-> now, date |-> date, tickers |-> tickers, data |-> data,
     missing_data |-> identify_missing_data(data)]

\* update_missing_data, lines 656-658: one stored entry after the merge.
merge_entry(entry, new_data) ==
    [k \in DOMAIN entry |->
        IF k \in DOMAIN new_data /\ is_missing_value(entry[k])
        THEN new_data[k] ELSE entry[k]]

\* A merge that leaves the missing list as it was.
updated_file_stale_missing(c, new_data) ==
    [c EXCEPT !.data = [i \in 1..Len(c.data) |->
                           IF c.data[i].ticker = new_data.ticker
                           THEN merge_entry(c.data[i], new_data) ELSE c.data[i]]]

\* update_missing_data, lines 654-659: the file after the merge.
updated_file(c, new_data) ==
    LET data == [i \in 1..Len(c.data) |->
                    IF c.data[i].ticker = new_data.ticker
                    THEN merge_entry(c.data[i], new_data) ELSE c.data[i]]
    IN [c EXCEPT !.data = data, !.missing_data = identify_missing_data(data)]

\* get_data's return value (None, []).
Absent == [found |-> FALSE, data |-> <<>>, missing |-> <<>>]

\* An expiry test that keeps a file through its seventh day.
expired_late(c) == now - c.timestamp > cache_expiry_days

\* get_data, line 640: age.days >= cache_expiry_days.
expired(c) == now - c.timestamp >= cache_expiry_days

\* get_data: the returned pair; pickle.load of an unreadable file raises and
\* the except branch of lines 644-646 answers (None, []).
get_data_ret(key) ==
    IF key \notin DOMAIN cache THEN Absent
    ELSE IF key \in unreadable THEN Absent
    ELSE IF expired(cache[key]) THEN Absent
    ELSE [found |-> TRUE, data |-> cache[key].data,
          missing |-> cache[key].missing_data]

\* get_data: the files left on disk.  os.remove is reached only for a file
\* that was read and is expired; the except branch removes nothing.
get_data_files(key) ==
    IF key \in DOMAIN cache /\ key \notin unreadable /\ expired(cache[key])
    THEN [k \in DOMAIN cache \ {key} |-> cache[k]]
    ELSE cache

\* save_data: the files on disk afterwards.
save_data_files(date, tickers, data) ==
    LET key == get_cache_key(date, tickers)
    IN [k \in DOMAIN cache \cup {key} |->
           IF k = key THEN saved_file(date, tickers, data) ELSE cache[k]]

\* update_missing_data: the files on disk afterwards; a missing file makes
\* open() raise and an unreadable one makes pickle.load raise, which is
\* logged and changes nothing.
update_missing_data_files(date, tickers, new_data) ==
    LET key == get_cache_key(date, tickers)
    IN IF key \notin DOMAIN cache \/ key \in unreadable THEN cache
       ELSE [cache EXCEPT ![key] = updated_file(cache[key], new_data)]

NoOp == [op |-> "none"]

InitCache ==
    /\ cache = <<>>
    /\ now = 0
    /\ cache_ret = Absent
    /\ cache_last = NoOp
    /\ unreadable = {}

\* What get_data finds on disk under key.
found_on_disk(key) ==
    IF key \notin DOMAIN cache THEN "nothing"
    ELSE IF key \in unreadable THEN "unreadable"
    ELSE IF expired(cache[key]) THEN "expired"
    ELSE "fresh"

\* DataCache.save_data; open(cp, 'wb') replaces whatever the file held.
save_data(date, tickers, data) ==
    /\ cache' = save_data_files(date, tickers, data)
    /\ unreadable' = unreadable \ {get_cache_key(date, tickers)}
    /\ cache_last' = [op |-> "save_data", key |-> get_cache_key(date, tickers),
                      tickers |-> tickers, data |-> data]
    /\ cache_ret' = Absent
    /\ UNCHANGED now

\* DataCache.get_data
get_data(date, tickers) ==
    /\ cache_ret' = get_data_ret(get_cache_key(date, tickers))
    /\ cache' = get_data_files(get_cache_key(date, tickers))
    /\ cache_last' = [op |-> "get_data", key |-> get_cache_key(date, tickers),
                      tickers |-> tickers,
                      found |-> found_on_disk(get_cache_key(date, tickers))]
    /\ UNCHANGED <<now, unreadable>>

\* DataCache.update_missing_data
update_missing_data(date, tickers, new_data) ==
    /\ cache' = update_missing_data_files(date, tickers, new_data)
    /\ cache_last' = [op |-> "update_missing_data",
                      key |-> get_cache_key(date, tickers),
                      new_data |-> new_data]
    /\ cache_ret' = Absent
    /\ UNCHANGED <<now, unreadable>>

\* A cache file is damaged on disk (a write cut short, a pickle of another
\* version): from now on pickle.load raises for it.
damage_file(key) ==
    /\ key \in DOMAIN cache
    /\ key \notin unreadable
    /\ unreadable' = unreadable \cup {key}
    /\ cache_last' = [op |-> "damage_file", key |-> key]
    /\ cache_ret' = Absent
    /\ UNCHANGED <<cache, now>>

\* datetime.now() advances: by one day less than the retention window, or
\* by the whole window.
Tick ==
    /\ \E d \in {cache_expiry_days - 1, cache_expiry_days} : now' = now + d
    /\ now' <= MaxDay
    /\ UNCHANGED <<cache, cache_ret, cache_last, unreadable>>

\* The inputs of the cache operations: one date, the ticker lists of the
\* calendar, and for each ticker the records analyze_stock can produce.
ScanDate == "2024-03-01"
CacheTickerLists == {<<"AAA", "BBB">>, <<"BBB", "AAA">>}

RecordsOf(ticker) ==
    {analyze_record(ticker, h, od, 1000, "Pre Market") :
        h \in Histories, od \in OdResults}

\* The result lists of a scan of tks: a record for each ticker, or none for
\* a ticker whose analysis returned nothing.
RECURSIVE ResultLists(_)
ResultLists(tks) ==
    IF tks = <<>> THEN {<<>>}
    ELSE LET fronts == ResultLists(SubSeq(tks, 1, Len(tks) - 1))
         IN fronts \cup {Append(f, r) : f \in fronts, r \in RecordsOf(tks[Len(tks)])}

\* The records of a ticker whose options are thinly traded: the degraded
\* record, the record of a chain without quotes, and a complete one.
ThinRecordsOf(ticker) ==
    {analyze_record(ticker, h, od, 1000, "Pre Market") :
        h \in Histories,
        od \in {OdError, QuotelessOd, Od(2000000, 130, -500, 30, "5.0%", 32)}}

\* The result lists of a scan of thinly traded tickers.
RECURSIVE ThinResultLists(_)
ThinResultLists(tks) ==
    IF tks = <<>> THEN {<<>>}
    ELSE LET fronts == ThinResultLists(SubSeq(tks, 1, Len(tks) - 1))
         IN fronts \cup {Append(f, r) : f \in fronts, r \in ThinRecordsOf(tks[Len(tks)])}

\* Ticker lists of one calendar day that name the same symbols: in two
\* orders, and with a symbol the calendar page lists twice (lines 519-546
\* append a ticker per row, without deduplication).
KeyTickerLists == {<<"AAA", "BBB">>, <<"BBB", "AAA">>, <<"AAA", "BBB", "AAA">>}

\* The result lists of a scan of tks in which every analysis returned a
\* record, complete or degraded.
RECURSIVE FullResultLists(_)
FullResultLists(tks) ==
    IF tks = <<>> THEN {<<>>}
    ELSE {Append(f, analyze_record(tks[Len(tks)], h, od, 1000, "Pre Market")) :
             f \in FullResultLists(SubSeq(tks, 1, Len(tks) - 1)),
             h \in Histories, od \in ScanOdResults}

(***************************************************************************)
(* EnhancedEarningsScanner.scan_earnings_stocks.  The scan runs in its own *)
(* thread: it fetches the calendar, looks the cache up, and then handles   *)
(* the futures of each batch in the order in which they complete.          *)
(***************************************************************************)
\* analysed lists the tickers handed to analyze_stock by the current scan;
\* hist_fetches, backfills and store_calls count its calls of
\* batch_download_history, update_missing_data and save_data, cache_writes
\* its changes of a cache file; done counts the completed futures; progress lists the values given to
\* the progress callback as fractions <<numerator, denominator>>; completed
\* lists the tickers of the scan in the order as_completed yielded them.
VARIABLES scan_pc, scan_path, e_stocks, scan_batches, scan_b, pending,
          batch_hist, recommended, done, progress, scan_result, analysed,
          hist_fetches, backfills, store_calls, cache_writes,
          cached_at_lookup, completed, cache_at_start

scanVars == <<scan_pc, scan_path, e_stocks, scan_batches, scan_b, pending,
              batch_hist, recommended, done, progress, scan_result, analysed,
              hist_fetches, backfills, store_calls, cache_writes,
              cached_at_lookup, completed, cache_at_start>>

\* The calendar page the calendar source serves for ScanDate.
ScanPage ==
    <<[ticker |-> "BBB", tip |-> "After market close"],
      [ticker |-> "AAA", tip |-> "Before market open"],
      [ticker |-> "CCC", tip |-> ""]>>

\* scan_earnings_stocks, lines 745 and 771: slices of batch_size tickers.
RECURSIVE batches_of(_, _)
batches_of(list, size) ==
    IF list = <<>> THEN <<>>
    ELSE IF Len(list) <= size THEN <<list>>
    ELSE <<SubSeq(list, 1, size)>> \o batches_of(SubSeq(list, size + 1, Len(list)), size)

\* Line 742: the tickers of the missing list.
missing_tickers(md) == [i \in 1..Len(md) |-> md[i].ticker]

TimingRank(t) ==
    CASE t = "During Market" -> 1
      [] t = "Post Market" -> 2
      [] t = "Pre Market" -> 3
      [] t = "Unknown" -> 4

\* A sort by ticker alone.
sort_key_ticker_only(x) == <<0, 0, 0, TickerRank(x.ticker.s)>>

\* Lines 791-796: the sort key, and its order.
sort_key(x) ==
    <<IF x.recommendation # Str("Recommended") THEN 1 ELSE 0,
      IF x.earnings_time = Str("Unknown") THEN 1 ELSE 0,
      TimingRank(x.earnings_time.s),
      TickerRank(x.ticker.s)>>

key_less(a, b) ==
    \E i \in 1..4 : a[i] < b[i] /\ \A j \in 1..(i - 1) : a[j] = b[j]

\* list.sort: stable insertion of x into a sorted list.
RECURSIVE insert_sorted(_, _)
insert_sorted(list, x) ==
    IF list = <<>> THEN <<x>>
    ELSE IF key_less(sort_key(x), sort_key(list[Len(list)]))
         THEN Append(insert_sorted(SubSeq(list, 1, Len(list) - 1), x), list[Len(list)])
         ELSE Append(list, x)

\* The list left in completion order.
unsorted_results(list) == list

\* Line 791: recommended.sort(key=...), left to right.
RECURSIVE sort_results(_)
sort_results(list) ==
    IF list = <<>> THEN <<>>
    ELSE insert_sorted(sort_results(SubSeq(list, 1, Len(list) - 1)), list[Len(list)])

\* Lines 784 and 758: `if r:` keeps the future's result unless it is None.
keep_result(r) == r # None

\* Line 737: `if cd:` is false for None and for the empty list.
use_cached(ret) == ret.found /\ ret.data # <<>>

NoReturn == [none |-> TRUE, data |-> <<>>]
Returned(list) == [none |-> FALSE, data |-> list]

InitScan ==
    /\ scan_pc = "idle"
    /\ scan_path = "none"
    /\ e_stocks = <<>>
    /\ scan_batches = <<>>
    /\ scan_b = 0
    /\ pending = {}
    /\ batch_hist = {}
    /\ recommended = <<>>
    /\ done = 0
    /\ progress = <<>>
    /\ scan_result = NoReturn
    /\ analysed = <<>>
    /\ hist_fetches = 0
    /\ backfills = 0
    /\ store_calls = 0
    /\ cache_writes = 0
    /\ cached_at_lookup = Absent
    /\ completed = <<>>
    /\ cache_at_start = <<cache, unreadable>>

\* scan_earnings_stocks, lines 729-731: entry, up to the calendar fetch.
ScanStart ==
    /\ scan_pc \in {"idle", "returned"}
    /\ FetchStart
    /\ scan_pc' = "fetching"
    /\ scan_path' = "none"
    /\ e_stocks' = <<>>
    /\ scan_batches' = <<>>
    /\ scan_b' = 0
    /\ pending' = {}
    /\ batch_hist' = {}
    /\ recommended' = <<>>
    /\ done' = 0
    /\ progress' = <<>>
    /\ scan_result' = NoReturn
    /\ analysed' = <<>>
    /\ hist_fetches' = 0
    /\ backfills' = 0
    /\ store_calls' = 0
    /\ cache_writes' = 0
    /\ cached_at_lookup' = Absent
    /\ completed' = <<>>
    /\ cache_at_start' = <<cache, unreadable>>
    /\ UNCHANGED <<proxyVars, cacheVars>>

\* A scan that goes on to the cache lookup whatever the calendar returned.
always_stocks(e) == FALSE

\* Line 732, `if not e_stocks`: the calendar returned no ticker.
no_stocks(e) == e = <<>>

\* Lines 732-771: the calendar answered; the cache lookup decides the path.
ScanLookup ==
    /\ scan_pc = "fetching"
    /\ cal_pc = "returned"
    /\ e_stocks' = cal_result
    /\ UNCHANGED <<proxyVars, calVars, now, pending, batch_hist, recommended,
                   done, analysed, hist_fetches, backfills, store_calls,
                   scan_b, completed, cache_at_start>>
    /\ IF no_stocks(cal_result)
       THEN /\ scan_pc' = "returned"
            /\ scan_path' = "empty"
            /\ scan_result' = Returned(<<>>)
            /\ UNCHANGED <<cache, cache_ret, cache_last, unreadable,
                           scan_batches, progress, cache_writes,
                           cached_at_lookup>>
       ELSE /\ get_data(ScanDate, cal_result)
            /\ cached_at_lookup' = cache_ret'
            /\ cache_writes' = IF cache' # cache THEN 1 ELSE 0
            /\ IF use_cached(cache_ret')
               THEN IF cache_ret'.missing # <<>>
                    THEN /\ scan_path' = "hit_partial"
                         /\ scan_batches' = batches_of(missing_tickers(cache_ret'.missing),
                                                        batch_size)
                         /\ scan_pc' = "batch"
                         /\ UNCHANGED <<progress, scan_result>>
                    ELSE /\ scan_path' = "hit_complete"
                         /\ progress' = Append(progress, <<100, 1>>)
                         /\ scan_result' = Returned(cache_ret'.data)
                         /\ scan_pc' = "returned"
                         /\ UNCHANGED scan_batches
               ELSE /\ scan_path' = "miss"
                    /\ scan_batches' = batches_of(cal_result, batch_size)
                    /\ scan_pc' = "batch"
                    /\ UNCHANGED <<progress, scan_result>>

\* Lines 747-749 and 773-775: the bulk history download of the next batch
\* (with answers the tickers it has a history for; none if it failed) and
\* the submission of one analyze_stock per ticker of the batch.
ScanBatch(with) ==
    /\ scan_pc = "batch"
    /\ scan_b < Len(scan_batches)
    /\ with \subseteq SeqToSet(scan_batches[scan_b + 1])
    /\ scan_b' = scan_b + 1
    /\ batch_hist' = with
    /\ hist_fetches' = hist_fetches + 1
    /\ pending' = 1..Len(scan_batches[scan_b + 1])
    /\ analysed' = analysed \o scan_batches[scan_b + 1]
    /\ scan_pc' = "workers"
    /\ UNCHANGED <<proxyVars, calVars, cacheVars, scan_path, e_stocks,
                   scan_batches, recommended, done, progress, scan_result,
                   backfills, store_calls, cache_writes, cached_at_lookup,
                   completed, cache_at_start>>

\* Line 754 and 780: the value given to the progress callback.
progress_value(path, d, total) ==
    IF path = "hit_partial" THEN <<80 * total + 20 * d, total>>
    ELSE <<80 * d, total>>

\* The total the progress is scaled by: len(missing_tickers) or len(e_stocks).
scan_total ==
    IF scan_path = "hit_partial" THEN Len(cached_at_lookup.missing) ELSE Len(e_stocks)

\* Lines 750-761 and 776-789: the future of the i-th ticker of the batch
\* completes with r (None if analyze_stock caught an exception) and the
\* scan thread handles it.
ScanComplete(i, r) ==
    /\ scan_pc = "workers"
    /\ i \in pending
    /\ pending' = pending \ {i}
    /\ completed' = Append(completed, scan_batches[scan_b][i])
    /\ done' = done + 1
    /\ progress' = Append(progress, progress_value(scan_path, done', scan_total))
    /\ scan_pc' = IF pending' = {} THEN "batch" ELSE "workers"
    /\ IF keep_result(r)
       THEN IF scan_path = "hit_partial"
            THEN /\ update_missing_data(ScanDate, e_stocks, r)
                 /\ backfills' = backfills + 1
                 /\ cache_writes' = cache_writes + (IF get_cache_key(ScanDate, e_stocks) \in DOMAIN cache THEN 1 ELSE 0)
                 /\ UNCHANGED recommended
            ELSE /\ recommended' = Append(recommended, r)
                 /\ UNCHANGED <<cacheVars, backfills, cache_writes>>
       ELSE UNCHANGED <<cacheVars, recommended, backfills, cache_writes>>
    /\ UNCHANGED <<proxyVars, calVars, scan_path, e_stocks, scan_batches, scan_b,
                   batch_hist, scan_result, analysed, hist_fetches,
                   store_calls, cached_at_lookup, cache_at_start>>

\* The results analyze_stock can give for the i-th ticker of the batch:
\* None when st.history (asked for a ticker without batch history) or
\* st2.info raises, else the record built from the history and from
\* compute_recommendation's answer.
AnalysisOutcomes(i) ==
    LET t == scan_batches[scan_b][i]
    IN {None} \cup {analyze_record(t, h, od, 1000, get_earnings_time(t)) :
                       h \in Histories, od \in ScanOdResults}

\* Lines 762-766 and 791-801: after the last batch.
ScanFinish ==
    /\ scan_pc = "batch"
    /\ scan_b = Len(scan_batches)
    /\ scan_pc' = "returned"
    /\ progress' = Append(progress, <<100, 1>>)
    /\ IF scan_path = "hit_partial"
       THEN /\ get_data(ScanDate, e_stocks)
            /\ scan_result' = IF cache_ret'.found THEN Returned(cache_ret'.data)
                              ELSE NoReturn
            /\ cache_writes' = cache_writes + (IF cache' # cache THEN 1 ELSE 0)
            /\ UNCHANGED <<recommended, store_calls>>
       ELSE /\ recommended' = sort_results(recommended)
            /\ save_data(ScanDate, e_stocks, recommended')
            /\ store_calls' = store_calls + 1
            /\ cache_writes' = cache_writes + 1
            /\ scan_result' = Returned(recommended')
    /\ UNCHANGED <<proxyVars, calVars, scan_path, e_stocks, scan_batches, scan_b,
                   pending, batch_hist, done, analysed, hist_fetches,
                   backfills, cached_at_lookup, completed, cache_at_start>>

(***************************************************************************)
(* OptionsAnalyzer.build_term_structure.  The knots are a set of pairs     *)
(* <<days to expiry, implied volatility in percent>> with distinct days:   *)
(* compute_recommendation builds days and ivs from the dictionary atm_ivs, *)
(* whose keys are distinct expiry dates.                                   *)
(***************************************************************************)
VARIABLES ts_knots, ts_dte, ts_ret

termVars == <<ts_knots, ts_dte, ts_ret>>

MaxKnots == 3
TermDays == {10, 30, 45, 60}
TermIvs == {20, 50}
TermQueries == {5, 10, 20, 30, 45, 60, 70}

KnotSets ==
    {K \in SUBSET (TermDays \X TermIvs) :
        /\ K # {}
        /\ Cardinality(K) <= MaxKnots
        /\ \A k, l \in K : k[1] = l[1] => k = l}

NoKnots == {}

knot_days(knots) == {k[1] : k \in knots}
knot_iv(knots, day) == (CHOOSE k \in knots : k[1] = day)[2]
NoQuery == -1
NaN == [tag |-> "nan"]

\* numpy.searchsorted(da, x), side 'left': how many knots lie below x.
searchsorted(da, x) == Cardinality({i \in 1..Len(da) : da[i] < x})

\* numpy.clip(i, lo, hi) is minimum(maximum(i, lo), hi), which gives hi
\* when lo > hi.
clip(i, lo, hi) ==
    LET m == IF i < lo THEN lo ELSE i
    IN IF m > hi THEN hi ELSE m

\* The callable interp1d(da, va, kind='linear', fill_value="extrapolate")
\* of line 321, applied to x: with fill_value "extrapolate" interp1d
\* evaluates slope * (x - x_lo) + y_lo between the knots at indices
\* clip(searchsorted(da, x), 1, len(da) - 1) - 1 and that index, where index
\* -1 is the last knot.  With one knot both indices name that knot and the
\* slope is 0 / 0, not a number.
interp1d(da, va, x) ==
    LET n == Len(da)
        hi0 == clip(searchsorted(da, x), 1, n - 1)
        hi == hi0 + 1
        lo == IF hi0 = 0 THEN n ELSE hi0
    IN IF da[hi] = da[lo] THEN NaN
       ELSE Num(va[lo] + ((va[hi] - va[lo]) * (x - da[lo])) \div (da[hi] - da[lo]))

\* tspline, lines 323-326.
tspline(da, va, dte) ==
    IF dte < da[1] THEN Num(va[1])
    ELSE IF dte > da[Len(da)] THEN Num(va[Len(va)])
    ELSE interp1d(da, va, dte)

\* build_term_structure(days, ivs)(dte): the knots sorted by day (lines
\* 318-320), then tspline.
build_term_structure(knots, dte) ==
    LET da == sorted(knot_days(knots))
        va == [i \in 1..Len(da) |-> knot_iv(knots, da[i])]
    IN tspline(da, va, dte)

InitTerm ==
    /\ ts_knots = NoKnots
    /\ ts_dte = NoQuery
    /\ ts_ret = None

\* spline = self.build_term_structure(ds, vs), line 413.
BuildTerm(knots) ==
    /\ ts_knots' = knots
    /\ ts_dte' = NoQuery
    /\ ts_ret' = None

\* spline(dte), lines 414 and 420.
QueryTerm(dte) ==
    /\ ts_knots # NoKnots
    /\ ts_dte' = dte
    /\ ts_ret' = build_term_structure(ts_knots, dte)
    /\ UNCHANGED ts_knots

(***************************************************************************)
(* ProxyManager.fetch_proxies step by step, on the GUI thread, while a     *)
(* thread of a scan or of an analysis runs get_proxy or rotate_proxy on    *)
(* the same ProxyManager.  No lock protects self.proxies; each step below  *)
(* is one read or one assignment of the attribute.                         *)
(***************************************************************************)
VARIABLES rf_pc, rf_left, rf_all, rf_unique, rf_i, rf_old, rf_new, rd_pc, rd_obs

refreshVars == <<rf_pc, rf_left, rf_all, rf_unique, rf_i, rf_old, rf_new,
                 rd_pc, rd_obs>>

\* rf_old is the pool when the refresh in progress (or the last one) began,
\* rf_new the deduplicated list of everything the last completed refresh
\* was answered.  rd_obs holds, for each read of self.proxies by the current
\* get_proxy or rotate_proxy, the list it saw, whether that list was rf_old
\* or rf_new at that moment, and whether a refresh was in progress.
InitRefresh ==
    /\ rf_pc = "idle"
    /\ rf_left = {}
    /\ rf_all = <<>>
    /\ rf_unique = <<>>
    /\ rf_i = 0
    /\ rf_old = <<>>
    /\ rf_new = <<>>
    /\ rd_pc = "idle"
    /\ rd_obs = <<>>

Observe(pool) ==
    [seen |-> pool, complete |-> pool = rf_old \/ pool = rf_new,
     refreshing |-> rf_pc # "idle"]

\* What a provider answers during a stepwise refresh: a failure, one
\* endpoint, or two endpoints in either order.
RefreshAnswer ==
    {ProviderFailed} \cup {[ok |-> TRUE, list |-> l] : l \in {<<1>>, <<1, 2>>, <<2, 1>>}}

\* A refresh that deduplicates into self.proxies itself.
pool_built_in_place(old, partial) == partial

\* fetch_proxies, lines 176-183: the loop appends to the local list unique;
\* self.proxies keeps the old list until the assignment of line 183.
pool_during_refresh(old, partial) == old

\* Lines 157-166: the five providers are submitted.
RefreshStart ==
    /\ rf_pc = "idle"
    /\ rf_pc' = "fetching"
    /\ rf_left' = Sources
    /\ rf_all' = <<>>
    /\ rf_unique' = <<>>
    /\ rf_i' = 0
    /\ rf_old' = proxies
    /\ UNCHANGED <<rf_new, rd_pc, rd_obs, proxyVars>>

\* Lines 167-173: as_completed yields the future of provider s, which
\* answered a (a provider that failed returned the empty list).
RefreshFuture(s, a) ==
    /\ rf_pc = "fetching"
    /\ s \in rf_left
    /\ Len(rf_all) + Len(a.list) <= MaxFetched
    /\ rf_all' = rf_all \o a.list
    /\ rf_left' = rf_left \ {s}
    /\ rf_pc' = IF rf_left' = {} THEN "dedup" ELSE "fetching"
    /\ UNCHANGED <<rf_unique, rf_i, rf_old, rf_new, rd_pc, rd_obs, proxyVars>>

\* Lines 177-182: one iteration of the loop over all_proxies.
RefreshDedup ==
    /\ rf_pc = "dedup"
    /\ rf_i < Len(rf_all)
    /\ rf_i' = rf_i + 1
    /\ rf_unique' = IF rf_all[rf_i'] \in SeqToSet(rf_unique) THEN rf_unique
                    ELSE Append(rf_unique, rf_all[rf_i'])
    /\ proxies' = pool_during_refresh(proxies, rf_unique')
    /\ UNCHANGED <<rf_pc, rf_left, rf_all, rf_old, rf_new, rd_pc, rd_obs,
                   current_proxy, proxy_enabled, session, lastCall, installed>>

\* Line 183: self.proxies = unique, and the return of fetch_proxies, which
\* ends the life of its local lists.
RefreshInstall ==
    /\ rf_pc = "dedup"
    /\ rf_i = Len(rf_all)
    /\ proxies' = rf_unique
    /\ rf_new' = unique(rf_all)
    /\ rf_pc' = "idle"
    /\ rf_all' = <<>>
    /\ rf_unique' = <<>>
    /\ rf_i' = 0
    /\ UNCHANGED <<rf_left, rf_old, rd_pc, rd_obs,
                   current_proxy, proxy_enabled, session, lastCall, installed>>

\* get_proxy, line 187: `not self.proxy_enabled or not self.proxies`; the
\* pool is read only when proxying is enabled.
AcquireCheck ==
    /\ rd_pc = "idle"
    /\ IF ~proxy_enabled
       THEN /\ rd_obs' = <<>>
            /\ rd_pc' = "idle"
       ELSE /\ rd_obs' = <<Observe(proxies)>>
            /\ rd_pc' = IF proxies = <<>> THEN "idle" ELSE "acquire"
    /\ UNCHANGED <<rf_pc, rf_left, rf_all, rf_unique, rf_i, rf_old, rf_new,
                   proxyVars>>

\* get_proxy, line 189: random.choice(self.proxies) reads the pool again;
\* on an empty list it raises IndexError and current_proxy is not assigned.
AcquireDraw ==
    /\ rd_pc = "acquire"
    /\ rd_obs' = Append(rd_obs, Observe(proxies))
    /\ rd_pc' = "idle"
    /\ IF proxies = <<>> THEN UNCHANGED current_proxy
       ELSE \E pick \in SeqToSet(proxies) : current_proxy' = pick
    /\ UNCHANGED <<rf_pc, rf_left, rf_all, rf_unique, rf_i, rf_old, rf_new,
                   proxies, proxy_enabled, session, lastCall, installed>>

\* rotate_proxy, line 193: `not self.proxy_enabled or len(self.proxies)<=1`.
RotateCheck ==
    /\ rd_pc = "idle"
    /\ IF ~proxy_enabled
       THEN /\ rd_obs' = <<>>
            /\ rd_pc' = "idle"
       ELSE /\ rd_obs' = <<Observe(proxies)>>
            /\ rd_pc' = IF Len(proxies) <= 1 THEN "idle" ELSE "rotate"
    /\ UNCHANGED <<rf_pc, rf_left, rf_all, rf_unique, rf_i, rf_old, rf_new,
                   proxyVars>>

\* rotate_proxy, lines 195-199: av is built from a second read of the pool.
RotateDraw ==
    /\ rd_pc = "rotate"
    /\ rd_obs' = Append(rd_obs, Observe(proxies))
    /\ rd_pc' = "idle"
    /\ IF av(proxies, current_proxy) = <<>> THEN UNCHANGED current_proxy
       ELSE \E pick \in SeqToSet(av(proxies, current_proxy)) : current_proxy' = pick
    /\ UNCHANGED <<rf_pc, rf_left, rf_all, rf_unique, rf_i, rf_old, rf_new,
                   proxies, proxy_enabled, session, lastCall, installed>>

(***************************************************************************)
(* The worker threads of one batch (lines 750-751 and 774-775) run         *)
(* analyze_stock concurrently on the one OptionsAnalyzer and its           *)
(* SessionManager.  Neither class holds a lock; each step below is one     *)
(* statement of the worker.                                                *)
(***************************************************************************)
VARIABLES wk_pc, wk_new, wk_read, warnings_shown, warn_count

workerVars == <<wk_pc, wk_new, wk_read, warnings_shown, warn_count>>

MaxWorkers == 2
Workers == 1..MaxWorkers

NoRead == [worker |-> 0, bound |-> NoProxy, rotating |-> {}]

\* The workers between rotate_proxy's selection and the assignment of the
\* new session.
Rotating == {w \in Workers : wk_pc[w] \in {"selected", "built"}}

InitWorkers ==
    /\ wk_pc = [w \in Workers |-> "idle"]
    /\ wk_new = [w \in Workers |-> NoProxy]
    /\ wk_read = NoRead
    /\ warnings_shown = FALSE
    /\ warn_count = 0

\* yang_zhang_volatility, line 299: the except branch tests the flag.
YzCheck(w) ==
    /\ wk_pc[w] = "idle"
    /\ wk_pc' = [wk_pc EXCEPT ![w] = IF warnings_shown THEN "idle" ELSE "warn"]
    /\ UNCHANGED <<wk_new, wk_read, warnings_shown, warn_count, proxyVars>>

\* Line 300: warnings.warn.
YzWarn(w) ==
    /\ wk_pc[w] = "warn"
    /\ warn_count' = warn_count + 1
    /\ wk_pc' = [wk_pc EXCEPT ![w] = "set"]
    /\ UNCHANGED <<wk_new, wk_read, warnings_shown, proxyVars>>

\* Line 301: self.warnings_shown=True.
YzSet(w) ==
    /\ wk_pc[w] = "set"
    /\ warnings_shown' = TRUE
    /\ wk_pc' = [wk_pc EXCEPT ![w] = "idle"]
    /\ UNCHANGED <<wk_new, wk_read, warn_count, proxyVars>>

\* get_session (line 221), as get_ticker and the retry paths call it.
GetSession(w) ==
    /\ wk_pc[w] = "idle"
    /\ wk_read' = [worker |-> w, bound |-> session["analyzer"],
                   rotating |-> Rotating \ {w}]
    /\ UNCHANGED <<wk_pc, wk_new, warnings_shown, warn_count, proxyVars>>

\* rotate_session, lines 216-217: rotate_proxy selects the new endpoint.
RotSelect(w) ==
    /\ wk_pc[w] = "idle"
    /\ proxy_enabled
    /\ \E pick \in RotateChoices(proxies, current_proxy, proxy_enabled) :
         LET r == rotate_proxy(proxies, current_proxy, proxy_enabled, pick)
         IN /\ current_proxy' = r.current
            /\ wk_pc' = [wk_pc EXCEPT ![w] = IF r.ret # NoProxy THEN "selected"
                                            ELSE "idle"]
    /\ UNCHANGED <<wk_new, wk_read, warnings_shown, warn_count, proxies,
                   proxy_enabled, session, lastCall, installed>>

\* rotate_session, line 219, right-hand side: _create_session builds a
\* session bound to what get_proxy draws.
RotBuild(w) ==
    /\ wk_pc[w] = "selected"
    /\ \E pick \in GetChoices(proxies, proxy_enabled) :
         LET c == create_session(proxies, current_proxy, proxy_enabled, pick)
         IN /\ wk_new' = [wk_new EXCEPT ![w] = c.proxy]
            /\ current_proxy' = c.current
    /\ wk_pc' = [wk_pc EXCEPT ![w] = "built"]
    /\ UNCHANGED <<wk_read, warnings_shown, warn_count, proxies,
                   proxy_enabled, session, lastCall, installed>>

\* rotate_session, line 219: self.session is assigned the new session.
RotInstall(w) ==
    /\ wk_pc[w] = "built"
    /\ session' = [session EXCEPT !["analyzer"] = wk_new[w]]
    /\ wk_new' = [wk_new EXCEPT ![w] = NoProxy]
    /\ wk_pc' = [wk_pc EXCEPT ![w] = "idle"]
    /\ UNCHANGED <<wk_read, warnings_shown, warn_count, proxies,
                   current_proxy, proxy_enabled, lastCall, installed>>

(***************************************************************************)
(* Two scans of the same date at the same time: on_scan_earnings starts a  *)
(* thread for every click, and each scan thread backfills the cache entry  *)
(* with update_missing_data, which reads the file, merges and writes it    *)
(* back without a lock.                                                    *)
(***************************************************************************)
VARIABLES sc_pc, sc_copy, sc_new, sc_done

raceVars == <<sc_pc, sc_copy, sc_new, sc_done>>

MaxScans == 2
ScanThreads == 1..MaxScans

RaceTickers == <<"AAA", "BBB">>
RaceKey == get_cache_key(ScanDate, RaceTickers)

\* The record of a ticker whose options computation failed, and the records
\* a later analysis of it can give.
DegradedRecord(t) == analyze_record(t, History(10, 2000, 25), OdError, 0, "Unknown")
BackfillRecords(t) ==
    {analyze_record(t, h, Od(2000000, 130, -500, 30, "5.0%", 32), 1000,
                    "Pre Market") : h \in AnalyzeHistories}

InitRace ==
    /\ sc_pc = [t \in ScanThreads |-> "idle"]
    /\ sc_copy = [t \in ScanThreads |-> None]
    /\ sc_new = [t \in ScanThreads |-> None]
    /\ sc_done = {}

\* An earlier scan stored the entry, every ticker degraded.
RaceStore ==
    /\ RaceKey \notin DOMAIN cache
    /\ save_data(ScanDate, RaceTickers,
                 [i \in 1..Len(RaceTickers) |-> DegradedRecord(RaceTickers[i])])
    /\ sc_done' = {}
    /\ UNCHANGED <<sc_pc, sc_copy, sc_new>>

\* update_missing_data, lines 652-653, on scan thread t with the record r:
\* the file is read into c.
BackfillRead(t, r) ==
    /\ sc_pc[t] = "idle"
    /\ RaceKey \in DOMAIN cache
    /\ RaceKey \notin unreadable
    /\ sc_copy' = [sc_copy EXCEPT ![t] = cache[RaceKey]]
    /\ sc_new' = [sc_new EXCEPT ![t] = r]
    /\ sc_pc' = [sc_pc EXCEPT ![t] = "loaded"]
    /\ UNCHANGED <<sc_done, cacheVars>>

\* update_missing_data, lines 654-661: the merge into c and the write.
BackfillWrite(t) ==
    /\ sc_pc[t] = "loaded"
    /\ cache' = [cache EXCEPT ![RaceKey] = updated_file(sc_copy[t], sc_new[t])]
    /\ cache_last' = [op |-> "update_missing_data", key |-> RaceKey,
                      new_data |-> sc_new[t]]
    /\ cache_ret' = Absent
    /\ sc_done' = sc_done \cup {sc_new[t].ticker.s}
    /\ sc_copy' = [sc_copy EXCEPT ![t] = None]
    /\ sc_new' = [sc_new EXCEPT ![t] = None]
    /\ sc_pc' = [sc_pc EXCEPT ![t] = "idle"]
    /\ UNCHANGED <<now, unreadable>>

(***************************************************************************)
(* The worker pool of one batch, lines 750-761 and 774-789: a              *)
(* ThreadPoolExecutor of min(5, len(b)) workers is given one analyze_stock *)
(* per ticker of the batch, and the with block is left only when every     *)
(* future is done.  An analysis is named <<batch number, index>>.          *)
(***************************************************************************)
VARIABLES pool_b, pool_len, pool_queued, pool_running, pool_done

poolVars == <<pool_b, pool_len, pool_queued, pool_running, pool_done>>

MaxBatchLen == 6
MaxBatches == 2
pool_cap == 5

\* A pool with one worker per ticker, whatever the size of the batch.
max_workers_unbounded(n) == n

\* max_workers=min(5,len(b)), lines 750 and 774.
max_workers(n) == IF n < pool_cap THEN n ELSE pool_cap

InitPool ==
    /\ pool_b = 0
    /\ pool_len = 0
    /\ pool_queued = {}
    /\ pool_running = {}
    /\ pool_done = {}

\* The loop `for b in batches` reaches a batch of n tickers and submits
\* them: the with block of the batch before has been left, which waits for
\* its workers (the as_completed loop has seen every future by then).
PoolSubmit(n) ==
    /\ pool_b < MaxBatches
    /\ pool_queued = {}
    /\ {a \in pool_running : a[1] = pool_b} = {}
    /\ pool_b' = pool_b + 1
    /\ pool_len' = n
    /\ pool_queued' = {<<pool_b', i>> : i \in 1..n}
    /\ UNCHANGED <<pool_running, pool_done>>

\* A worker of the executor takes a queued analysis: the executor starts a
\* thread only while fewer than max_workers exist, and each thread runs one
\* analysis at a time.
PoolStart(a) ==
    /\ a \in pool_queued
    /\ Cardinality({r \in pool_running : r[1] = pool_b}) < max_workers(pool_len)
    /\ pool_queued' = pool_queued \ {a}
    /\ pool_running' = pool_running \cup {a}
    /\ UNCHANGED <<pool_b, pool_len, pool_done>>

\* analyze_stock returns and its future is done.
PoolFinish(a) ==
    /\ a \in pool_running
    /\ pool_running' = pool_running \ {a}
    /\ pool_done' = pool_done \cup {a}
    /\ UNCHANGED <<pool_b, pool_len, pool_queued>>

vars == <<proxyVars, calVars, recVars, cacheVars, scanVars, analyzeVars,
          termVars, refreshVars, workerVars, raceVars, poolVars>>



\* The state after EarningsTkApp.__init__ has built its objects.
Init ==
    InitProxy /\ InitCal /\ InitRec /\ InitCache /\ InitScan /\ InitAnalyze
    /\ InitTerm /\ InitRefresh /\ InitWorkers /\ InitRace /\ InitPool


\* The proxy settings are chosen in the GUI before the first fetch.
NextCal ==
    \/ on_toggle_proxy /\ cal_pc = "idle" /\ UNCHANGED <<calVars, recVars, cacheVars, scanVars, analyzeVars, termVars, refreshVars, workerVars, raceVars, poolVars>>
    \/ setup_proxies /\ cal_pc = "idle" /\ UNCHANGED <<calVars, recVars, cacheVars, scanVars, analyzeVars, termVars, refreshVars, workerVars, raceVars, poolVars>>
    \/ FetchStart /\ UNCHANGED <<proxyVars, recVars, cacheVars, scanVars, analyzeVars, termVars, refreshVars, workerVars, raceVars, poolVars>>
    \/ \E page \in Pages : FetchSucceeds(page) /\ UNCHANGED <<proxyVars, recVars, cacheVars, scanVars, analyzeVars, termVars, refreshVars, workerVars, raceVars, poolVars>>
    \/ FetchFails /\ UNCHANGED <<recVars, cacheVars, scanVars, analyzeVars, termVars, refreshVars, workerVars, raceVars, poolVars>>

SpecCal == Init /\ [][NextCal]_vars


NextProxy ==
    \/ on_toggle_proxy /\ UNCHANGED <<calVars, recVars, cacheVars, scanVars, analyzeVars, termVars, refreshVars, workerVars, raceVars, poolVars>>
    \/ fetch_proxies /\ UNCHANGED <<calVars, recVars, cacheVars, scanVars, analyzeVars, termVars, refreshVars, workerVars, raceVars, poolVars>>
    \/ GetProxy /\ UNCHANGED <<calVars, recVars, cacheVars, scanVars, analyzeVars, termVars, refreshVars, workerVars, raceVars, poolVars>>
    \/ RotateProxy /\ UNCHANGED <<calVars, recVars, cacheVars, scanVars, analyzeVars, termVars, refreshVars, workerVars, raceVars, poolVars>>
    \/ RotateSession /\ UNCHANGED <<calVars, recVars, cacheVars, scanVars, analyzeVars, termVars, refreshVars, workerVars, raceVars, poolVars>>

SpecProxy == Init /\ [][NextProxy]_vars

Symbols == {"", "AAA"}

\* The proxy settings are chosen in the GUI before the first call.
NextRec ==
    \/ on_toggle_proxy /\ rec_pc = "idle" /\ UNCHANGED <<calVars, recVars, cacheVars, scanVars, analyzeVars, termVars, refreshVars, workerVars, raceVars, poolVars>>
    \/ setup_proxies /\ rec_pc = "idle" /\ UNCHANGED <<calVars, recVars, cacheVars, scanVars, analyzeVars, termVars, refreshVars, workerVars, raceVars, poolVars>>
    \/ \E symbol \in Symbols : RecStart(symbol) /\ UNCHANGED <<calVars, cacheVars, scanVars, analyzeVars, termVars, refreshVars, workerVars, raceVars, poolVars>>
    \/ RecOptions /\ UNCHANGED <<calVars, cacheVars, scanVars, analyzeVars, termVars, refreshVars, workerVars, raceVars, poolVars>>
    \/ RecChain /\ UNCHANGED <<calVars, cacheVars, scanVars, analyzeVars, termVars, refreshVars, workerVars, raceVars, poolVars>>
    \/ RecChainFails /\ UNCHANGED <<calVars, cacheVars, scanVars, analyzeVars, termVars, refreshVars, workerVars, raceVars, poolVars>>
    \/ RecChainRetryFails /\ UNCHANGED <<calVars, cacheVars, scanVars, analyzeVars, termVars, refreshVars, workerVars, raceVars, poolVars>>
    \/ RecPrice /\ UNCHANGED <<calVars, cacheVars, scanVars, analyzeVars, termVars, refreshVars, workerVars, raceVars, poolVars>>
    \/ RecHistory1d /\ UNCHANGED <<calVars, cacheVars, scanVars, analyzeVars, termVars, refreshVars, workerVars, raceVars, poolVars>>
    \/ RecMetrics /\ UNCHANGED <<calVars, cacheVars, scanVars, analyzeVars, termVars, refreshVars, workerVars, raceVars, poolVars>>

SpecRec == Init /\ [][NextRec]_vars

NextCache ==
    \/ \E tks \in CacheTickerLists : \E data \in ResultLists(tks) :
         save_data(ScanDate, tks, data) /\ UNCHANGED <<proxyVars, calVars, recVars, scanVars, analyzeVars, termVars, refreshVars, workerVars, raceVars, poolVars>>
    \/ \E tks \in CacheTickerLists :
         get_data(ScanDate, tks) /\ UNCHANGED <<proxyVars, calVars, recVars, scanVars, analyzeVars, termVars, refreshVars, workerVars, raceVars, poolVars>>
    \/ \E tks \in CacheTickerLists : \E t \in Tickers : \E r \in RecordsOf(t) :
         update_missing_data(ScanDate, tks, r) /\ UNCHANGED <<proxyVars, calVars, recVars, scanVars, analyzeVars, termVars, refreshVars, workerVars, raceVars, poolVars>>
    \/ Tick /\ UNCHANGED <<proxyVars, calVars, recVars, scanVars, analyzeVars, termVars, refreshVars, workerVars, raceVars, poolVars>>

SpecCache == Init /\ [][NextCache]_vars

\* The cache operations on the records of thinly traded tickers.
NextThin ==
    \/ \E tks \in CacheTickerLists : \E data \in ThinResultLists(tks) :
         save_data(ScanDate, tks, data) /\ UNCHANGED <<proxyVars, calVars, recVars, scanVars, analyzeVars, termVars, refreshVars, workerVars, raceVars, poolVars>>
    \/ \E tks \in CacheTickerLists :
         get_data(ScanDate, tks) /\ UNCHANGED <<proxyVars, calVars, recVars, scanVars, analyzeVars, termVars, refreshVars, workerVars, raceVars, poolVars>>
    \/ \E tks \in CacheTickerLists : \E t \in Tickers : \E r \in ThinRecordsOf(t) :
         update_missing_data(ScanDate, tks, r) /\ UNCHANGED <<proxyVars, calVars, recVars, scanVars, analyzeVars, termVars, refreshVars, workerVars, raceVars, poolVars>>
    \/ Tick /\ UNCHANGED <<proxyVars, calVars, recVars, scanVars, analyzeVars, termVars, refreshVars, workerVars, raceVars, poolVars>>

SpecThin == Init /\ [][NextThin]_vars

\* Stores and lookups of one calendar day under ticker lists that name the
\* same symbols, with files that can be damaged between two calls.
NextKey ==
    \/ \E tks \in KeyTickerLists : \E data \in FullResultLists(tks) :
         save_data(ScanDate, tks, data) /\ UNCHANGED <<proxyVars, calVars, recVars, scanVars, analyzeVars, termVars, refreshVars, workerVars, raceVars, poolVars>>
    \/ \E tks \in KeyTickerLists :
         get_data(ScanDate, tks) /\ UNCHANGED <<proxyVars, calVars, recVars, scanVars, analyzeVars, termVars, refreshVars, workerVars, raceVars, poolVars>>
    \/ \E key \in DOMAIN cache :
         damage_file(key) /\ UNCHANGED <<proxyVars, calVars, recVars, scanVars, analyzeVars, termVars, refreshVars, workerVars, raceVars, poolVars>>
    \/ Tick /\ UNCHANGED <<proxyVars, calVars, recVars, scanVars, analyzeVars, termVars, refreshVars, workerVars, raceVars, poolVars>>

SpecKey == Init /\ [][NextKey]_vars

\* Analyses of single stocks.
NextAnalyze ==
    \/ \E t \in Tickers : \E h \in AnalyzeHistories \cup {NoHistory} : \E od \in AnalyzeOds :
         /\ analyze_stock(t, h, od)
         /\ UNCHANGED <<proxyVars, calVars, recVars, cacheVars, scanVars, termVars, refreshVars, workerVars, raceVars, poolVars>>
    \/ \E h \in AnalyzeHistories \cup {NoHistory} : \E od \in AnalyzeOds :
         /\ analyze_stock_raises(h, od)
         /\ UNCHANGED <<proxyVars, calVars, recVars, cacheVars, scanVars, termVars, refreshVars, workerVars, raceVars, poolVars>>

SpecAnalyze == Init /\ [][NextAnalyze]_vars

\* A scan with proxying left disabled, as the application starts; days pass
\* between scans and between the batches of a scan.
NextScan ==
    \/ ScanStart /\ UNCHANGED <<recVars, analyzeVars, termVars, refreshVars, workerVars, raceVars, poolVars>>
    \/ /\ scan_pc = "fetching"
       /\ FetchSucceeds(ScanPage)
       /\ UNCHANGED <<proxyVars, recVars, cacheVars, scanVars, analyzeVars, termVars, refreshVars, workerVars, raceVars, poolVars>>
    \/ /\ scan_pc = "fetching"
       /\ FetchFails
       /\ UNCHANGED <<recVars, cacheVars, scanVars, analyzeVars, termVars, refreshVars, workerVars, raceVars, poolVars>>
    \/ ScanLookup /\ UNCHANGED <<recVars, analyzeVars, termVars, refreshVars, workerVars, raceVars, poolVars>>
    \/ /\ scan_b < Len(scan_batches)
       /\ \E with \in {{}, SeqToSet(scan_batches[scan_b + 1])} : ScanBatch(with)
       /\ UNCHANGED <<recVars, analyzeVars, termVars, refreshVars, workerVars, raceVars, poolVars>>
    \/ \E i \in pending : \E r \in AnalysisOutcomes(i) :
         ScanComplete(i, r) /\ UNCHANGED <<recVars, analyzeVars, termVars, refreshVars, workerVars, raceVars, poolVars>>
    \/ ScanFinish /\ UNCHANGED <<recVars, analyzeVars, termVars, refreshVars, workerVars, raceVars, poolVars>>
    \/ /\ scan_pc \in {"idle", "returned", "batch"}
       /\ Tick
       /\ UNCHANGED <<proxyVars, calVars, recVars, scanVars, analyzeVars, termVars, refreshVars, workerVars, raceVars, poolVars>>

SpecScan == Init /\ [][NextScan]_vars

\* Term structures built and queried, as compute_recommendation does.
NextTerm ==
    \/ \E knots \in KnotSets :
         /\ BuildTerm(knots)
         /\ UNCHANGED <<proxyVars, calVars, recVars, cacheVars, scanVars,
                        analyzeVars, refreshVars, workerVars, raceVars, poolVars>>
    \/ \E dte \in TermQueries :
         /\ QueryTerm(dte)
         /\ UNCHANGED <<proxyVars, calVars, recVars, cacheVars, scanVars,
                        analyzeVars, refreshVars, workerVars, raceVars, poolVars>>

SpecTerm == Init /\ [][NextTerm]_vars

\* A refresh on the GUI thread interleaved with the get_proxy and
\* rotate_proxy calls of one other thread; the checkbox can be toggled at
\* any time.
NextRefresh ==
    \/ /\ RefreshStart
       /\ UNCHANGED <<calVars, recVars, cacheVars, scanVars, analyzeVars, termVars, workerVars, raceVars, poolVars>>
    \/ \E s \in Sources : \E a \in RefreshAnswer :
         /\ RefreshFuture(s, a)
         /\ UNCHANGED <<calVars, recVars, cacheVars, scanVars, analyzeVars, termVars, workerVars, raceVars, poolVars>>
    \/ /\ RefreshDedup
       /\ UNCHANGED <<calVars, recVars, cacheVars, scanVars, analyzeVars, termVars, workerVars, raceVars, poolVars>>
    \/ /\ RefreshInstall
       /\ UNCHANGED <<calVars, recVars, cacheVars, scanVars, analyzeVars, termVars, workerVars, raceVars, poolVars>>
    \/ /\ AcquireCheck
       /\ UNCHANGED <<calVars, recVars, cacheVars, scanVars, analyzeVars, termVars, workerVars, raceVars, poolVars>>
    \/ /\ AcquireDraw
       /\ UNCHANGED <<calVars, recVars, cacheVars, scanVars, analyzeVars, termVars, workerVars, raceVars, poolVars>>
    \/ /\ RotateCheck
       /\ UNCHANGED <<calVars, recVars, cacheVars, scanVars, analyzeVars, termVars, workerVars, raceVars, poolVars>>
    \/ /\ RotateDraw
       /\ UNCHANGED <<calVars, recVars, cacheVars, scanVars, analyzeVars, termVars, workerVars, raceVars, poolVars>>
    \/ /\ on_toggle_proxy
       /\ UNCHANGED <<calVars, recVars, cacheVars, scanVars, analyzeVars, termVars,
                      refreshVars, workerVars, raceVars, poolVars>>

SpecRefresh == Init /\ [][NextRefresh]_vars

\* The workers of a batch on the shared analyzer, with proxying switched on
\* and the pool refreshed from the GUI.
NextWorkers ==
    \/ \E w \in Workers :
         /\ YzCheck(w)
         /\ UNCHANGED <<calVars, recVars, cacheVars, scanVars, analyzeVars,
                        termVars, refreshVars, raceVars, poolVars>>
    \/ \E w \in Workers :
         /\ YzWarn(w)
         /\ UNCHANGED <<calVars, recVars, cacheVars, scanVars, analyzeVars,
                        termVars, refreshVars, raceVars, poolVars>>
    \/ \E w \in Workers :
         /\ YzSet(w)
         /\ UNCHANGED <<calVars, recVars, cacheVars, scanVars, analyzeVars,
                        termVars, refreshVars, raceVars, poolVars>>
    \/ \E w \in Workers :
         /\ GetSession(w)
         /\ UNCHANGED <<calVars, recVars, cacheVars, scanVars, analyzeVars,
                        termVars, refreshVars, raceVars, poolVars>>
    \/ \E w \in Workers :
         /\ RotSelect(w)
         /\ UNCHANGED <<calVars, recVars, cacheVars, scanVars, analyzeVars,
                        termVars, refreshVars, raceVars, poolVars>>
    \/ \E w \in Workers :
         /\ RotBuild(w)
         /\ UNCHANGED <<calVars, recVars, cacheVars, scanVars, analyzeVars,
                        termVars, refreshVars, raceVars, poolVars>>
    \/ \E w \in Workers :
         /\ RotInstall(w)
         /\ UNCHANGED <<calVars, recVars, cacheVars, scanVars, analyzeVars,
                        termVars, refreshVars, raceVars, poolVars>>
    \/ /\ on_toggle_proxy
       /\ UNCHANGED <<calVars, recVars, cacheVars, scanVars, analyzeVars,
                     termVars, refreshVars, raceVars, workerVars, poolVars>>
    \/ /\ setup_proxies
       /\ UNCHANGED <<calVars, recVars, cacheVars, scanVars, analyzeVars,
                      termVars, refreshVars, raceVars, workerVars, poolVars>>

SpecWorkers == Init /\ [][NextWorkers]_vars

\* Two scan threads backfilling the entry an earlier scan stored.
NextRace ==
    \/ /\ RaceStore
       /\ UNCHANGED <<proxyVars, calVars, recVars, scanVars, analyzeVars,
                      termVars, refreshVars, workerVars, poolVars>>
    \/ \E t \in ScanThreads : \E x \in SeqToSet(RaceTickers) : \E r \in BackfillRecords(x) :
         /\ BackfillRead(t, r)
         /\ UNCHANGED <<proxyVars, calVars, recVars, scanVars, analyzeVars,
                        termVars, refreshVars, workerVars, poolVars>>
    \/ \E t \in ScanThreads :
         /\ BackfillWrite(t)
         /\ UNCHANGED <<proxyVars, calVars, recVars, scanVars, analyzeVars,
                        termVars, refreshVars, workerVars, poolVars>>

SpecRace == Init /\ [][NextRace]_vars

\* The batches of a scan, each of 1 to MaxBatchLen tickers.
NextPool ==
    \/ \E n \in 1..MaxBatchLen :
         /\ PoolSubmit(n)
         /\ UNCHANGED <<proxyVars, calVars, recVars, cacheVars, scanVars,
                        analyzeVars, termVars, refreshVars, workerVars, raceVars>>
    \/ \E a \in pool_queued :
         /\ PoolStart(a)
         /\ UNCHANGED <<proxyVars, calVars, recVars, cacheVars, scanVars,
                        analyzeVars, termVars, refreshVars, workerVars, raceVars>>
    \/ \E a \in pool_running :
         /\ PoolFinish(a)
         /\ UNCHANGED <<proxyVars, calVars, recVars, cacheVars, scanVars,
                        analyzeVars, termVars, refreshVars, workerVars, raceVars>>

SpecPool == Init /\ [][NextPool]_vars

(***************************************************************************)
(* C3: after a rotate_session in which rotate_proxy yielded an endpoint E, *)
(* the session is bound to exactly E, and E differs from the endpoint that *)
(* was current before the rotation.                                        *)
(***************************************************************************)
C3_SessionBoundToRotated ==
    (lastCall.op = "rotate_session" /\ lastCall.ret # NoProxy) =>
        /\ session[lastCall.mgr] = lastCall.ret
        /\ session[lastCall.mgr] # lastCall.pre_current

(***************************************************************************)
(* C4: rotate_proxy, with proxying enabled and at least 2 pool entries,    *)
(* returns a pool member different from the previously current endpoint    *)
(* and records it as current; otherwise it returns None and leaves current *)
(* unchanged.                                                              *)
(***************************************************************************)
C4_RotateNeverCurrent ==
    lastCall.op = "rotate_proxy" =>
        IF proxy_enabled /\ Len(proxies) >= 2
        THEN /\ lastCall.ret \in SeqToSet(proxies)
             /\ lastCall.ret # lastCall.pre_current
             /\ current_proxy = lastCall.ret
        ELSE /\ lastCall.ret = NoProxy
             /\ current_proxy = lastCall.pre_current

C4_Witness ==
    /\ lastCall.op = "rotate_proxy"
    /\ proxy_enabled
    /\ Len(proxies) >= 2
    /\ lastCall.pre_current \in SeqToSet(proxies)
    /\ lastCall.ret # NoProxy

(***************************************************************************)
(* C5: fetch_earnings_data makes at most 3 requests, rotates the session   *)
(* once after each failed attempt that is not the last (never after the    *)
(* third failure or after a success), returns the tickers parsed from the  *)
(* page of the first successful attempt, and returns the empty list after  *)
(* 3 failures.                                                             *)
(***************************************************************************)
C5_RetryContract ==
    /\ cal_requests <= 3
    /\ cal_rotations <= 2
    /\ cal_pc = "attempt" => cal_rotations = cal_requests
    /\ cal_pc = "returned" =>
         /\ cal_requests >= 1
         /\ cal_rotations = cal_requests - 1
         /\ \/ cal_attempt = cal_requests - 1 /\ cal_result = page_tickers(cal_page)
            \/ cal_attempt = 3 /\ cal_requests = 3 /\ cal_result = <<>>

C5_Witness ==
    /\ cal_pc = "returned"
    /\ cal_requests = 3
    /\ cal_rotations = 2
    /\ cal_attempt = 2
    /\ Len(cal_result) = 2

(***************************************************************************)
(* C6: compute_recommendation never lets an exception escape; it returns   *)
(* a full result or an error marker, and the error marker exactly when the *)
(* third attempt failed or a data-absence condition was detected.          *)
(***************************************************************************)
C6_NoFailureEscapes ==
    /\ rec_pc # "raised"
    /\ rec_failures <= 3
    /\ rec_pc = "returned" =>
         /\ rec_result.kind \in {"full", "error"}
         /\ rec_result.kind = "error" <=>
              \/ rec_failures = 3
              \/ rec_absence \in {"no_symbol", "no_options", "no_atm_iv"}

C6_Witness ==
    /\ rec_pc = "returned"
    /\ rec_failures = 3
    /\ rec_absence = "none"
    /\ rec_result.kind = "error"

(***************************************************************************)
(* C7: once an attempt finds that the symbol has no options, or that no    *)
(* listed expiry reaches the 45-day horizon, the call has returned an      *)
(* error marker: no rotation and no further attempt follow.                *)
(***************************************************************************)
C7_AbsenceNotRetried ==
    rec_absence \in {"no_options", "no_valid_expiration"} =>
        /\ rec_pc = "returned"
        /\ rec_result.kind = "error"

\* The missing-sentinels of a stored field: 'N/A', None and 0 (False is 0).
C1_Sentinels == {Str("N/A"), None, Num(0), Bool(FALSE)}

(***************************************************************************)
(* C1: update_missing_data never changes a populated field: in every       *)
(* stored record, a field whose value is none of the missing-sentinels     *)
(* 'N/A', None, 0 (False is Python's 0) has the same value after the       *)
(* backfill as before, whatever the incoming record holds; no file and no  *)
(* record appears or disappears.                                           *)
(***************************************************************************)
C1_BackfillNeverRegresses ==
    [][cache_last'.op = "update_missing_data" =>
         /\ DOMAIN cache' = DOMAIN cache
         /\ \A key \in DOMAIN cache :
              /\ Len(cache'[key].data) = Len(cache[key].data)
              /\ \A i \in 1..Len(cache[key].data) :
                   /\ DOMAIN cache'[key].data[i] = DOMAIN cache[key].data[i]
                   /\ \A k \in DOMAIN cache[key].data[i] :
                        cache[key].data[i][k] \notin C1_Sentinels =>
                            cache'[key].data[i][k] = cache[key].data[i][k]]_vars

\* A stored current_iv of 0.32 has survived an incoming current_iv of None.
C1_Witness ==
    /\ cache_last.op = "update_missing_data"
    /\ cache_last.new_data.current_iv = None
    /\ cache_last.key \in DOMAIN cache
    /\ \E i \in 1..Len(cache[cache_last.key].data) :
         /\ cache[cache_last.key].data[i].ticker = cache_last.new_data.ticker
         /\ cache[cache_last.key].data[i].current_iv = Num(32)
         /\ cache[cache_last.key].data[i].expected_move = Str("N/A")

(***************************************************************************)
(* C2: a fresh (cache-miss) scan returns exactly one record per calendar   *)
(* symbol, also for a symbol whose analysis failed.                        *)
(***************************************************************************)
C2_FreshScanKeepsEverySymbol ==
    (scan_pc = "returned" /\ scan_path = "miss") =>
        /\ ~scan_result.none
        /\ Len(scan_result.data) = Len(e_stocks)
        /\ \A i \in 1..Len(e_stocks) :
             \E j \in 1..Len(scan_result.data) :
                 scan_result.data[j].ticker = Str(e_stocks[i])

(***************************************************************************)
(* C8: when the lookup of a scan finds a non-expired entry with an empty   *)
(* missing list, the scan returns the cached results unchanged, analyses   *)
(* nothing, fetches no bulk history, writes nothing to the cache and       *)
(* reports progress 100.                                                   *)
(***************************************************************************)
C8_CacheHitComplete ==
    (scan_path \notin {"none", "empty"} /\ cached_at_lookup.found
        /\ cached_at_lookup.missing = <<>>) =>
        /\ scan_pc = "returned"
        /\ scan_result = Returned(cached_at_lookup.data)
        /\ analysed = <<>>
        /\ hist_fetches = 0
        /\ cache_writes = 0
        /\ progress = << <<100, 1>> >>

(***************************************************************************)
(* C9: on the partial-hit path the tickers handed to analyze_stock are     *)
(* exactly those of the cached missing list, and every completed analysis  *)
(* has triggered one update_missing_data.                                  *)
(***************************************************************************)
C9_CacheHitPartial ==
    scan_path = "hit_partial" =>
        /\ SeqToSet(analysed) \subseteq SeqToSet(missing_tickers(cached_at_lookup.missing))
        /\ backfills = done
        /\ scan_pc = "returned" =>
             /\ SeqToSet(analysed) = SeqToSet(missing_tickers(cached_at_lookup.missing))
             /\ done = Len(analysed)

RECURSIVE C10_Flatten(_)
C10_Flatten(ss) == IF ss = <<>> THEN <<>> ELSE ss[1] \o C10_Flatten(Tail(ss))

C10_IsSorted(list) ==
    \A i, j \in 1..Len(list) :
        i < j => ~key_less(sort_key(list[j]), sort_key(list[i]))

(***************************************************************************)
(* C10: on the cache-miss path the batches have at most batch_size tickers *)
(* and partition the calendar list, every calendar ticker is analysed      *)
(* exactly once, save_data is called once and only after every analysis    *)
(* has completed, and a lookup made then returns the sorted list the scan  *)
(* returned.                                                               *)
(***************************************************************************)
C10_CacheMiss ==
    scan_path = "miss" =>
        /\ C10_Flatten(scan_batches) = e_stocks
        /\ \A b \in 1..Len(scan_batches) :
             Len(scan_batches[b]) >= 1 /\ Len(scan_batches[b]) <= batch_size
        /\ analysed = C10_Flatten(SubSeq(scan_batches, 1, scan_b))
        /\ store_calls = (IF scan_pc = "returned" THEN 1 ELSE 0)
        /\ scan_pc = "returned" =>
             LET key == get_cache_key(ScanDate, e_stocks)
             IN /\ analysed = e_stocks
                /\ done = Len(e_stocks)
                /\ C10_IsSorted(scan_result.data)
                /\ key \in DOMAIN cache
                /\ ~expired(cache[key]) =>
                     /\ get_data_ret(key).found
                     /\ get_data_ret(key).data = scan_result.data

C10_Witness ==
    /\ scan_path = "miss"
    /\ scan_pc = "returned"
    /\ Len(scan_batches) = 2
    /\ Len(scan_result.data) = 3
    /\ scan_result.data[1].ticker = Str("AAA")
    /\ get_data_ret(get_cache_key(ScanDate, e_stocks)).data = scan_result.data

(***************************************************************************)
(* C11: a get_data that follows a save_data of the same date and ticker    *)
(* list within the retention window, with no other cache call in between,  *)
(* returns the stored result list, record by record and field by field,    *)
(* sentinel values included.                                               *)
(***************************************************************************)
C11_RoundTrip ==
    [][(/\ cache_last.op = "save_data"
        /\ cache_last'.op = "get_data"
        /\ cache_last'.key = cache_last.key
        /\ cache_last'.tickers = cache_last.tickers
        /\ now - cache[cache_last.key].timestamp < cache_expiry_days) =>
           /\ cache_ret'.found
           /\ Len(cache_ret'.data) = Len(cache_last.data)
           /\ \A i \in 1..Len(cache_last.data) :
                /\ DOMAIN cache_ret'.data[i] = DOMAIN cache_last.data[i]
                /\ \A k \in DOMAIN cache_last.data[i] :
                     cache_ret'.data[i][k] = cache_last.data[i][k]]_vars

\* Six days after the store a lookup returned a degraded record with its
\* three sentinels 'N/A', None and 0.
C11_Witness ==
    /\ cache_last.op = "get_data"
    /\ cache_last.found = "fresh"
    /\ now - cache[cache_last.key].timestamp = cache_expiry_days - 1
    /\ cache_ret.found
    /\ \E i \in 1..Len(cache_ret.data) :
         /\ cache_ret.data[i].expected_move = Str("N/A")
         /\ cache_ret.data[i].current_iv = None
         /\ cache_ret.data[i].term_structure = Num(0)
         /\ cache_ret.data[i].market_cap = Num(0)

\* The sentinel tests of the three tracked fields of a record.
C12_Tests(d) ==
    [expected_move |-> d.expected_move = Str("N/A"),
     current_iv |-> d.current_iv = None,
     term_structure |-> d.term_structure \in {Num(0), Str("N/A")}]

C12_Flagged(d) == \E f \in DOMAIN C12_Tests(d) : C12_Tests(d)[f]

(***************************************************************************)
(* C12: in every cache file the missing list is exact: its items are, in   *)
(* order, the records that satisfy one of the three sentinel tests, and    *)
(* the missing_fields of an item are exactly the fields whose test holds,  *)
(* each named once.                                                        *)
(***************************************************************************)
C12_MissingExact ==
    \A key \in DOMAIN cache :
        LET c == cache[key]
            flagged == SelectSeq(c.data, C12_Flagged)
        IN /\ Len(c.missing_data) = Len(flagged)
           /\ \A i \in 1..Len(flagged) :
                LET mf == c.missing_data[i].missing_fields
                IN /\ c.missing_data[i].ticker = flagged[i].ticker.s
                   /\ SeqToSet(mf) = {f \in DOMAIN C12_Tests(flagged[i]) :
                                         C12_Tests(flagged[i])[f]}
                   /\ \A a, b \in 1..Len(mf) : mf[a] = mf[b] => a = b

\* A backfill filled expected_move and current_iv of a degraded record and
\* left its term_structure at 0: the item now names term_structure alone.
C12_Witness ==
    /\ cache_last.op = "update_missing_data"
    /\ cache_last.key \in DOMAIN cache
    /\ \E i \in 1..Len(cache[cache_last.key].data) :
         LET d == cache[cache_last.key].data[i]
         IN /\ d.ticker = cache_last.new_data.ticker
            /\ d.earnings_time = Str("Unknown")
            /\ d.expected_move = Str("5.0%")
            /\ d.current_iv = Num(32)
            /\ d.term_structure = Num(0)
    /\ \E j \in 1..Len(cache[cache_last.key].missing_data) :
         /\ cache[cache_last.key].missing_data[j].ticker = cache_last.new_data.ticker.s
         /\ cache[cache_last.key].missing_data[j].missing_fields = <<"term_structure">>

(***************************************************************************)
(* C13: a get_data of a readable file that is 7 days old or older returns  *)
(* (None, []) and removes the file, so that a later lookup finds nothing;  *)
(* a get_data of a younger file returns its results and leaves the file    *)
(* as it is.                                                               *)
(***************************************************************************)
C13_LazyExpiry ==
    [][(/\ cache_last'.op = "get_data"
        /\ cache_last'.key \in DOMAIN cache
        /\ cache_last'.key \notin unreadable) =>
           LET key == cache_last'.key
           IN IF now - cache[key].timestamp >= 7
              THEN /\ cache_ret' = Absent
                   /\ key \notin DOMAIN cache'
              ELSE /\ cache_ret'.found
                   /\ cache_ret'.data = cache[key].data
                   /\ cache_ret'.missing = cache[key].missing_data
                   /\ key \in DOMAIN cache'
                   /\ cache'[key] = cache[key]]_vars

\* A lookup on day 7 found a file of day 0 and removed it.
C13_Witness ==
    /\ cache_last.op = "get_data"
    /\ cache_last.found = "expired"
    /\ cache_ret = Absent
    /\ cache_last.key \notin DOMAIN cache
    /\ now = cache_expiry_days

(***************************************************************************)
(* C14: a get_data that finds an unreadable file returns (None, []) and    *)
(* removes the file: the file no longer exists after the lookup.           *)
(***************************************************************************)
C14_CorruptFileDeleted ==
    (cache_last.op = "get_data" /\ cache_last.found = "unreadable") =>
        /\ cache_ret = Absent
        /\ cache_last.key \notin DOMAIN cache

(***************************************************************************)
(* C15: the cache key depends only on the date and the set of symbols: a   *)
(* readable, unexpired file stored under a ticker list is found by a       *)
(* lookup under every list of the same date with the same set of symbols,  *)
(* whatever its order and its repetitions.                                 *)
(***************************************************************************)
C15_KeyIgnoresOrderAndRepeats ==
    cache_last.op = "get_data" =>
        \A k \in DOMAIN cache :
            (/\ k \notin unreadable
             /\ ~expired(cache[k])
             /\ cache[k].date = ScanDate
             /\ SeqToSet(cache[k].tickers) = SeqToSet(cache_last.tickers)) =>
                /\ k = cache_last.key
                /\ cache_ret.found
                /\ cache_ret.data = cache[k].data

\* The key of the claim as a tuple of numbers: False before True, and the
\* timing tags and the tickers in lexical order.
C16_Key(x) ==
    <<IF x.recommendation = Str("Recommended") THEN 0 ELSE 1,
      IF x.earnings_time = Str("Unknown") THEN 1 ELSE 0,
      CHOOSE n \in 1..4 :
          <<"During Market", "Post Market", "Pre Market", "Unknown">>[n] = x.earnings_time.s,
      CHOOSE n \in 1..Len(TickerNames) : TickerNames[n] = x.ticker.s>>

C16_Before(a, b) ==
    \E i \in 1..4 : a[i] < b[i] /\ \A j \in 1..(i - 1) : a[j] = b[j]

C17_ScoreDecision ==
    (an_result # None /\ ~an_od.error) =>
        LET vol == an_od.avg_volume.b
            ratio == an_od.iv30_rv30.n
            slope == an_od.term_slope.n
            rec == an_result.recommendation.s
        IN /\ rec \in {"Recommended", "Consider", "Avoid"}
           /\ rec = "Recommended" <=> (vol /\ ratio >= 125 /\ slope <= -406)
           /\ rec = "Consider" <=>
                  (slope <= -406 /\ ((vol /\ ~(ratio >= 125)) \/ (~vol /\ ratio >= 125)))
           /\ slope > -406 => rec = "Avoid"
           /\ (slope <= -406 /\ ~vol /\ ratio < 125) => rec = "Avoid"
           /\ (vol /\ ratio = 130 /\ slope = -500) => rec = "Recommended"
           /\ (~vol /\ ratio = 130 /\ slope = -500) => rec = "Consider"
           /\ (vol /\ ratio = 130 /\ slope = -200) => rec = "Avoid"
           /\ (~vol /\ ratio = 50 /\ slope = 1000) => rec = "Avoid"

\* At the two thresholds: ratio 1.25 and slope -0.00406 with the volume
\* passing give Recommended.
C17_Witness ==
    /\ an_result # None
    /\ ~an_od.error
    /\ an_od.avg_volume = Bool(TRUE)
    /\ an_od.iv30_rv30 = Num(125)
    /\ an_od.term_slope = Num(-406)
    /\ an_result.recommendation = Str("Recommended")

\* The least element of a non-empty set of days.
C18_Min(S) == CHOOSE x \in S : \A y \in S : x <= y

(***************************************************************************)
(* C18: filter_dates returns, in ascending order, every listed expiry up   *)
(* to and including the first one at least 45 days out, without a first    *)
(* element equal to today: the list is not empty, its last element is at   *)
(* least 45 days out and every other element is less than 45 days out.     *)
(* If no listed expiry is at least 45 days out it raises.                  *)
(***************************************************************************)
C18_ExpirationSelection ==
    rec_filter # NoFilterCall =>
        LET dates == rec_filter.dates
            ret == rec_filter.ret
            far == {d \in dates : d >= today + 45}
        IN IF far = {} THEN ret = NoDate
           ELSE /\ ret # NoDate
                /\ ret # <<>>
                /\ \A i, j \in 1..Len(ret) : i < j => ret[i] < ret[j]
                /\ SeqToSet(ret) =
                       {d \in dates : d <= C18_Min(far)}
                           \ (IF C18_Min(dates) = today THEN {today} ELSE {})
                /\ ret[Len(ret)] >= today + 45
                /\ \A i \in 1..(Len(ret) - 1) : ret[i] < today + 45

\* Of the expiries today, today+10, today+45 and today+60 the call returned
\* today+10 and today+45.
C18_Witness ==
    /\ rec_filter.dates = {0, 10, 45, 60}
    /\ rec_filter.ret = <<10, 45>>
    /\ rec_exps = <<10, 45>>

(***************************************************************************)
(* C19: get_proxy returns None when proxying is disabled or the pool is    *)
(* empty, and leaves current_proxy alone; otherwise it returns an endpoint *)
(* of the pool the most recent fetch_proxies installed and records it as   *)
(* current_proxy.  It never returns an endpoint that fetch did not yield.  *)
(***************************************************************************)
C19_AcquireFromRefreshedPool ==
    lastCall.op = "get_proxy" =>
        IF ~proxy_enabled \/ proxies = <<>>
        THEN /\ lastCall.ret = NoProxy
             /\ current_proxy = lastCall.pre_current
        ELSE /\ lastCall.ret \in Endpoints
             /\ lastCall.ret \in installed
             /\ lastCall.ret \in SeqToSet(proxies)
             /\ current_proxy = lastCall.ret

\* With endpoint 1 current, a get_proxy on the refreshed pool {1, 2} drew 2.
C19_Witness ==
    /\ lastCall.op = "get_proxy"
    /\ proxy_enabled
    /\ installed = {1, 2}
    /\ lastCall.pre_current = 1
    /\ lastCall.ret = 2
    /\ current_proxy = 2

(***************************************************************************)
(* C20: whichever providers fail, fetch_proxies installs as the pool       *)
(* exactly the endpoints the other providers returned: every such endpoint *)
(* is in the pool, the pool holds nothing else, and no endpoint occurs in  *)
(* it twice.  It changes neither current_proxy nor the enabled flag.       *)
(***************************************************************************)
C20_RefreshInstallsDistinct ==
    lastCall.op = "fetch_proxies" =>
        /\ SeqToSet(proxies) = installed
        /\ \A i, j \in 1..Len(proxies) : proxies[i] = proxies[j] => i = j
        /\ Len(proxies) = Cardinality(installed)
        /\ current_proxy = lastCall.pre_current

\* fetch_geonode failed and fetch_proxyscrape returned the endpoints 1 and
\* 2: the pool is [1, 2].
C20_Witness ==
    /\ lastCall.op = "fetch_proxies"
    /\ lastCall.failed = {"fetch_geonode"}
    /\ installed = {1, 2}
    /\ proxies = <<1, 2>>

(***************************************************************************)
(* C22: rotate_session fails open: when proxying is disabled or the pool   *)
(* holds at most one endpoint, the call builds no new session, and the     *)
(* endpoint the session is bound to and the pool's current_proxy are what  *)
(* they were before the call.                                              *)
(***************************************************************************)
C22_RotateFailsOpen ==
    (lastCall.op = "rotate_session" /\ (~proxy_enabled \/ Len(proxies) <= 1)) =>
        /\ ~lastCall.rebuilt
        /\ lastCall.ret = NoProxy
        /\ session[lastCall.mgr] = lastCall.pre_session
        /\ current_proxy = lastCall.pre_current

\* With proxying enabled and the one-endpoint pool [1], a rotate_session of
\* a session bound to endpoint 2 (drawn from an earlier pool) left it bound
\* to endpoint 2.
C22_Witness ==
    /\ lastCall.op = "rotate_session"
    /\ proxy_enabled
    /\ proxies = <<1>>
    /\ lastCall.pre_session = 2
    /\ session[lastCall.mgr] = 2
    /\ ~lastCall.rebuilt

(***************************************************************************)
(* C23: in every reachable state each manager's session is bound to at     *)
(* most one endpoint, and to none whenever proxying is disabled.           *)
(***************************************************************************)
C23_NoEndpointWhileDisabled ==
    /\ \A m \in Managers : session[m] \in Endpoints \cup {NoProxy}
    /\ ~proxy_enabled => \A m \in Managers : session[m] = NoProxy

\* A progress value <<n, d>> stands for n / d.
C24_InRange(v) == 0 <= v[1] /\ v[1] <= 100 * v[2]
C24_Leq(v, w) == v[1] * w[2] <= w[1] * v[2]
C24_NonDecreasing ==
    \A i \in 1..Len(progress) : \A j \in i..Len(progress) :
        C24_Leq(progress[i], progress[j])

(***************************************************************************)
(* C24: the values a scan gives to the progress callback never decrease    *)
(* and lie within [0, 100], and a scan that has returned reported 100 as   *)
(* its last value, whichever path it took.                                 *)
(***************************************************************************)
C24_ProgressEndsAt100 ==
    /\ C24_NonDecreasing
    /\ \A i \in 1..Len(progress) : C24_InRange(progress[i])
    /\ scan_pc = "returned" =>
          /\ progress # <<>>
          /\ progress[Len(progress)] = <<100, 1>>

\* The calendar fetch of the current scan gave up after max_retries failed
\* attempts.
C25_FetchFailed == cal_pc = "returned" /\ cal_attempt = max_retries

(***************************************************************************)
(* C25: once the calendar fetch of a scan has failed max_retries times,    *)
(* the scan returns the empty list, has analysed no ticker and fetched no  *)
(* price history, and the cache files are what they were when the scan     *)
(* started.                                                                *)
(***************************************************************************)
C25_FailedFetchReturnsEmpty ==
    (C25_FetchFailed /\ scan_pc # "fetching") =>
        /\ scan_pc = "returned"
        /\ scan_result = Returned(<<>>)
        /\ analysed = <<>>
        /\ hist_fetches = 0
        /\ store_calls = 0
        /\ backfills = 0
        /\ <<cache, unreadable>> = cache_at_start

\* A scan returned after three failed fetches while the cache held an entry
\* with missing fields for the scanned date.
C25_Witness ==
    /\ C25_FetchFailed
    /\ cal_requests = max_retries
    /\ scan_pc = "returned"
    /\ scan_path = "empty"
    /\ \E k \in DOMAIN cache : cache[k].missing_data # <<>>

(***************************************************************************)
(* C26: when compute_recommendation returned an error while a price        *)
(* history was available, analyze_stock returned a record: recommendation  *)
(* Avoid, expected_move 'N/A', current_iv None, term_structure 0, and the  *)
(* price, last volume and historical volatility of the price history.      *)
(***************************************************************************)
C26_DegradedRecord ==
    (an_od.error /\ an_hist # NoHistory) =>
        /\ an_result # None
        /\ an_result.recommendation = Str("Avoid")
        /\ an_result.expected_move = Str("N/A")
        /\ an_result.current_iv = None
        /\ an_result.term_structure = Num(0)
        /\ an_result.current_price = Num(an_hist.close)
        /\ an_result.volume = Num(an_hist.volume)
        /\ an_result.historical_volatility = Num(an_hist.hv)

C26_Witness ==
    /\ an_od.error
    /\ an_hist = History(55, 900, 40)
    /\ an_result # None
    /\ an_result.current_price = Num(55)

C29_Days == knot_days(ts_knots)
C29_First == CHOOSE d \in C29_Days : \A e \in C29_Days : d <= e
C29_Last == CHOOSE d \in C29_Days : \A e \in C29_Days : d >= e

(***************************************************************************)
(* C29: for every non-empty set of knots, a query below the smallest knot  *)
(* day returns the implied volatility of that knot, a query above the      *)
(* largest knot day returns that of the largest, and a query at a knot day *)
(* returns that knot's implied volatility.                                 *)
(***************************************************************************)
C29_ClampsOutsideKnots ==
    (ts_knots # NoKnots /\ ts_dte # NoQuery) =>
        /\ ts_dte < C29_First => ts_ret = Num(knot_iv(ts_knots, C29_First))
        /\ ts_dte > C29_Last => ts_ret = Num(knot_iv(ts_knots, C29_Last))
        /\ ts_dte \in C29_Days => ts_ret = Num(knot_iv(ts_knots, ts_dte))

(***************************************************************************)
(* C21: a refresh replaces the pool atomically: while it is fetching and   *)
(* deduplicating, self.proxies is still the pool it started from, and      *)
(* every read of the pool by a concurrent get_proxy or rotate_proxy saw    *)
(* the complete old pool or the complete deduplicated new pool.            *)
(***************************************************************************)
C21_AtomicReplace ==
    /\ rf_pc # "idle" => proxies = rf_old
    /\ rf_pc = "idle" => proxies = rf_new
    /\ \A i \in 1..Len(rd_obs) : rd_obs[i].complete

\* A get_proxy or rotate_proxy read the pool [2, 1] while a refresh was in
\* progress and read the new pool [1, 2] after it.
C21_Witness ==
    /\ Len(rd_obs) = 2
    /\ rd_obs[1].refreshing
    /\ rd_obs[1].seen = <<2, 1>>
    /\ rd_obs[2].seen = <<1, 2>>
    /\ ~rd_obs[2].refreshing
    /\ rf_pc = "idle"

(***************************************************************************)
(* C27: rotation and client acquisition on the shared SessionManager are   *)
(* mutually exclusive among the workers: no two workers are rebuilding the *)
(* session at the same time, and no worker read the session while another  *)
(* was between selecting a new endpoint and installing the new session.    *)
(***************************************************************************)
C27_RotationExclusive ==
    /\ Cardinality(Rotating) <= 1
    /\ wk_read.rotating = {}

(***************************************************************************)
(* C28: writes to one cache key are serialized: the read-modify-write of a *)
(* backfill never overlaps another one on the same entry, and no backfill  *)
(* that was written is lost: the entry of a backfilled ticker is no longer *)
(* flagged as missing.                                                     *)
(***************************************************************************)
C28_NoLostUpdate ==
    /\ Cardinality({t \in ScanThreads : sc_pc[t] = "loaded"}) <= 1
    /\ RaceKey \in DOMAIN cache =>
          \A x \in sc_done :
              x \notin SeqToSet(missing_tickers(cache[RaceKey].missing_data))

(***************************************************************************)
(* C30: the fallback warning of yang_zhang_volatility is emitted at most   *)
(* once per OptionsAnalyzer, whatever the calls, those made concurrently   *)
(* by the workers of a batch included.                                     *)
(***************************************************************************)
C30_WarnedAtMostOnce == warn_count <= 1

(***************************************************************************)
(* C31: during one compute_recommendation call, whatever fails, the        *)
(* current price is requested at most 3 times and the session is rotated   *)
(* at most 2 times.                                                        *)
(***************************************************************************)
C31_ThreeAttemptCeiling ==
    /\ rec_price_requests <= 3
    /\ rec_rotations <= 2

(***************************************************************************)
(* C32: at every moment of a scan at most min(5, size of the current       *)
(* batch) analyses are running, and every running or queued analysis       *)
(* belongs to the current batch: none of a later batch has started while   *)
(* one of an earlier batch was unfinished.                                 *)
(***************************************************************************)
C32_BoundedConcurrency ==
    /\ Cardinality(pool_running) <= 5
    /\ Cardinality(pool_running) <= pool_len
    /\ \A a \in pool_running \cup pool_queued : a[1] = pool_b

\* The second batch has six tickers: five analyses are running and the
\* sixth waits, the first batch being done.
C32_Witness ==
    /\ pool_b = 2
    /\ pool_len = 6
    /\ Cardinality(pool_running) = 5
    /\ Cardinality(pool_queued) = 1
    /\ \E a \in pool_done : a[1] = 1

\* The recommendation the three criteria of a record give.
C33_Rescored(r) ==
    Str(score(r.avg_volume.b, r.iv30_rv30.n >= 125, r.term_slope.n <= -406))

(***************************************************************************)
(* C33: every record a scan returned is consistent: its recommendation is  *)
(* the score of its own avg_volume, iv30_rv30 and term_slope, also when    *)
(* the record was read from the cache after backfills.                     *)
(***************************************************************************)
C33_RecordsConsistent ==
    (scan_pc = "returned" /\ ~scan_result.none) =>
        \A i \in 1..Len(scan_result.data) :
            scan_result.data[i].recommendation = C33_Rescored(scan_result.data[i])

(***************************************************************************)
(* C34: after any sequence of refreshes, acquisitions, rotations and       *)
(* toggles, the pool's current_proxy is None or a member of the present    *)
(* pool.                                                                   *)
(***************************************************************************)
C34_CurrentInPool ==
    current_proxy = NoProxy \/ current_proxy \in SeqToSet(proxies)

\* The fields the missing list of file c names for ticker t.
C35_MissingOf(c, t) ==
    UNION {SeqToSet(c.missing_data[j].missing_fields) :
              j \in {i \in 1..Len(c.missing_data) : c.missing_data[i].ticker = t}}

(***************************************************************************)
(* C35: a backfill only shrinks what is missing and touches nothing else:  *)
(* across an update_missing_data the set of cache files is the same, and   *)
(* in every file the missing fields of each symbol are a subset of what    *)
(* they were, the records of the symbols other than the backfilled one are *)
(* unchanged, and the timestamp, the date and the symbol list are          *)
(* unchanged.                                                              *)
(***************************************************************************)
C35_BackfillOnlyShrinks ==
    [][cache_last'.op = "update_missing_data" =>
         /\ DOMAIN cache' = DOMAIN cache
         /\ \A key \in DOMAIN cache :
              LET c == cache[key]
                  u == cache'[key]
              IN /\ u.timestamp = c.timestamp
                 /\ u.date = c.date
                 /\ u.tickers = c.tickers
                 /\ Len(u.data) = Len(c.data)
                 /\ \A i \in 1..Len(c.data) :
                      c.data[i].ticker # cache_last'.new_data.ticker
                          => u.data[i] = c.data[i]
                 /\ \A i \in 1..Len(c.data) :
                      /\ u.data[i].ticker = c.data[i].ticker
                      /\ C35_MissingOf(u, c.data[i].ticker.s)
                            \subseteq C35_MissingOf(c, c.data[i].ticker.s)]_vars


(***************************************************************************)
(* C36: a scan always returns a sequence of records, possibly empty, and   *)
(* never an absent value; in particular on the CacheHitPartial path, also  *)
(* when the cache entry expires, is deleted or becomes unreadable between  *)
(* the lookup and the re-read that follows the backfills.                  *)
(***************************************************************************)
C36_ScanReturnsSequence ==
    scan_pc = "returned" => ~scan_result.none

====
